---------------------------- MODULE Spec2Model ----------------------------
(***************************************************************************)
(* The component indexing and retrieval engine of cpptojava:               *)
(* EnhancedPineconeService with its LocalJSONStorage fallback              *)
(* (src/src/services/EnhancedPineconeService.ts).                          *)
(*                                                                         *)
(* JavaScript strings are sequences of one-character strings, so that      *)
(* toLowerCase, includes and the regular expressions of the enricher are   *)
(* computed rather than assumed.                                           *)
(***************************************************************************)
EXTENDS Integers, Sequences, FiniteSets, TLC

VARIABLES isOnline, index, probe, vindex, file, last

vars == <<isOnline, index, probe, vindex, file, last>>

(***************************************************************************)
(* Bounds of the model.                                                    *)
(***************************************************************************)
\* longest component list handed to one upsertComponents call
MaxList == 2
\* number of distinct clock readings new Date() can return
MaxTime == 2
\* largest topK a caller passes
MaxTopK == 2
\* how many more components of one service a long scan result holds than
\* getServiceComponents asks the Vector Index Service for
MaxOver == 1

(***************************************************************************)
(* Program constants.                                                      *)
(***************************************************************************)
\* generateEnhancedMetadata: component.content.substring(0, 2000)
ContentCap == 2000
\* upsertComponents: const batchSize = 100
batchSize == 100
\* pineconeServiceSearch: topK: 1000
ServiceTopK == 1000

(***************************************************************************)
(* Strings.                                                                *)
(***************************************************************************)
UpperCase == <<"A","B","C","D","E","F","G","H","I","J","K","L","M",
               "N","O","P","Q","R","S","T","U","V","W","X","Y","Z">>
LowerCase == <<"a","b","c","d","e","f","g","h","i","j","k","l","m",
               "n","o","p","q","r","s","t","u","v","w","x","y","z">>
Digits == {"0","1","2","3","4","5","6","7","8","9"}

Range(s) == {s[i] : i \in DOMAIN s}

\* \s of a JavaScript regular expression (the characters the model uses)
SpaceChars == {" ", "\n", "\t"}
\* \w of a JavaScript regular expression
WordChars == Range(UpperCase) \cup Range(LowerCase) \cup Digits \cup {"_"}

LowerMap ==
  [c \in Range(UpperCase) |->
     LowerCase[CHOOSE i \in DOMAIN UpperCase : UpperCase[i] = c]]

LowerChar(c) == IF c \in DOMAIN LowerMap THEN LowerMap[c] ELSE c

\* String.prototype.toLowerCase
toLowerCase(s) == [i \in 1..Len(s) |-> LowerChar(s[i])]

\* String.prototype.includes
includes(s, q) ==
  \E i \in 0..(Len(s) - Len(q)) : SubSeq(s, i + 1, i + Len(q)) = q

\* String.prototype.substring(0, n)
substring0(s, n) == SubSeq(s, 1, IF Len(s) < n THEN Len(s) ELSE n)

\* the value of a missing optional property
Undefined == <<"<undefined>">>

\* Boolean(s) of a string or undefined
Truthy(s) == s # Undefined /\ s # <<>>

\* a || b
OrElse(a, b) == IF Truthy(a) THEN a ELSE b

\* [...new Set(xs)]: first occurrences, in order
RECURSIVE Dedup(_)
Dedup(xs) ==
  IF xs = <<>> THEN <<>>
  ELSE LET init == Dedup(SubSeq(xs, 1, Len(xs) - 1))
           x == xs[Len(xs)]
       IN IF x \in Range(init) THEN init ELSE Append(init, x)

\* regex.test(s) of /(w1|w2|...)/i : some alternative occurs in s, any case
TestAnyI(words, s) ==
  \E k \in DOMAIN words : includes(toLowerCase(s), toLowerCase(words[k]))

\* the text of s at position i is w (case-insensitively when ci)
MatchesAt(s, i, w, ci) ==
  /\ i + Len(w) - 1 <= Len(s)
  /\ LET t == SubSeq(s, i, i + Len(w) - 1)
     IN IF ci THEN toLowerCase(t) = toLowerCase(w) ELSE t = w

\* length of the longest run, starting at i, of characters that are in
\* chars (member = TRUE) or outside it (member = FALSE)
RECURSIVE RunLen(_, _, _, _)
RunLen(s, i, chars, member) ==
  IF i > Len(s) \/ (s[i] \in chars) # member THEN 0
  ELSE 1 + RunLen(s, i + 1, chars, member)

\* s.match(/(w1|w2|...)/g): leftmost matches, first alternative first,
\* each match resuming after the previous one
RECURSIVE MatchAllWords(_, _, _, _)
MatchAllWords(s, i, words, ci) ==
  IF i > Len(s) THEN <<>>
  ELSE IF \E k \in DOMAIN words : MatchesAt(s, i, words[k], ci)
    THEN LET k == CHOOSE k \in DOMAIN words :
                    /\ MatchesAt(s, i, words[k], ci)
                    /\ \A j \in 1..(k - 1) : ~MatchesAt(s, i, words[j], ci)
             n == Len(words[k])
         IN <<SubSeq(s, i, i + n - 1)>> \o MatchAllWords(s, i + n, words, ci)
    ELSE MatchAllWords(s, i + 1, words, ci)

(***************************************************************************)
(* String literals of the source.                                          *)
(***************************************************************************)
S_unknown == <<"u", "n", "k", "n", "o", "w", "n">>
S_custom == <<"c", "u", "s", "t", "o", "m">>
S_uiComponent == <<"u", "i", "-", "c", "o", "m", "p", "o", "n", "e", "n", "t">>
S_cpp == <<"c", "p", "p">>
S_h == <<"h">>
S_hpp == <<"h", "p", "p">>
S_cc == <<"c", "c">>
S_cxx == <<"c", "x", "x">>
S_high == <<"h", "i", "g", "h">>
S_medium == <<"m", "e", "d", "i", "u", "m">>
S_low == <<"l", "o", "w">>
S_simple == <<"s", "i", "m", "p", "l", "e">>
S_moderate == <<"m", "o", "d", "e", "r", "a", "t", "e">>
S_complex == <<"c", "o", "m", "p", "l", "e", "x">>
S_class == <<"c", "l", "a", "s", "s">>
S_struct == <<"s", "t", "r", "u", "c", "t">>
S_function == <<"f", "u", "n", "c", "t", "i", "o", "n">>
S_highComplexity == <<"h", "i", "g", "h", "-", "c", "o", "m", "p", "l", "e", "x", "i", "t", "y">>
S_lowComplexity == <<"l", "o", "w", "-", "c", "o", "m", "p", "l", "e", "x", "i", "t", "y">>
S_highCoupling == <<"h", "i", "g", "h", "-", "c", "o", "u", "p", "l", "i", "n", "g">>
S_independent == <<"i", "n", "d", "e", "p", "e", "n", "d", "e", "n", "t">>
S_form == <<"f", "o", "r", "m">>
S_table == <<"t", "a", "b", "l", "e">>
S_modal == <<"m", "o", "d", "a", "l">>
S_navigation == <<"n", "a", "v", "i", "g", "a", "t", "i", "o", "n">>
S_chart == <<"c", "h", "a", "r", "t">>

\* detectUIPattern: the pattern table, in the order of Object.entries
UIPatterns == <<
  [pattern |-> S_form,
   words |-> <<<<"Q", "D", "i", "a", "l", "o", "g">>, <<"Q", "F", "o", "r", "m">>, <<"Q", "I", "n", "p", "u", "t", "D", "i", "a", "l", "o", "g">>, <<"Q", "M", "e", "s", "s", "a", "g", "e", "B", "o", "x">>,
               <<"f", "o", "r", "m">>, <<"i", "n", "p", "u", "t">>, <<"b", "u", "t", "t", "o", "n">>>>],
  [pattern |-> S_table,
   words |-> <<<<"Q", "T", "a", "b", "l", "e">>, <<"Q", "T", "a", "b", "l", "e", "V", "i", "e", "w">>, <<"Q", "T", "a", "b", "l", "e", "W", "i", "d", "g", "e", "t">>,
               <<"t", "a", "b", "l", "e">>, <<"g", "r", "i", "d">>, <<"l", "i", "s", "t">>>>],
  [pattern |-> S_modal,
   words |-> <<<<"Q", "D", "i", "a", "l", "o", "g">>, <<"Q", "M", "e", "s", "s", "a", "g", "e", "B", "o", "x">>, <<"m", "o", "d", "a", "l">>, <<"p", "o", "p", "u", "p">>,
               <<"d", "i", "a", "l", "o", "g">>>>],
  [pattern |-> S_navigation,
   words |-> <<<<"Q", "M", "e", "n", "u">>, <<"Q", "M", "e", "n", "u", "B", "a", "r">>, <<"Q", "T", "o", "o", "l", "B", "a", "r">>, <<"Q", "T", "a", "b", "W", "i", "d", "g", "e", "t">>,
               <<"m", "e", "n", "u">>, <<"n", "a", "v", "i", "g", "a", "t", "i", "o", "n">>>>],
  [pattern |-> S_chart,
   words |-> <<<<"Q", "C", "h", "a", "r", "t">>, <<"Q", "C", "h", "a", "r", "t", "V", "i", "e", "w">>, <<"Q", "G", "r", "a", "p", "h">>, <<"c", "h", "a", "r", "t">>,
               <<"g", "r", "a", "p", "h">>, <<"p", "l", "o", "t">>>> ] >>

\* extractExternalAPIs: /(curl|http|https|api)/gi and /(REST|SOAP|GraphQL)/gi
ApiWords == <<<<"c", "u", "r", "l">>, <<"h", "t", "t", "p">>, <<"h", "t", "t", "p", "s">>, <<"a", "p", "i">>>>
ProtocolWords == <<<<"R", "E", "S", "T">>, <<"S", "O", "A", "P">>, <<"G", "r", "a", "p", "h", "Q", "L">>>>

(***************************************************************************)
(* Metadata Enricher.                                                      *)
(***************************************************************************)
\* detectUIPattern: the first pattern whose regex matches, else 'custom'
detectUIPattern(content) ==
  IF \E k \in DOMAIN UIPatterns : TestAnyI(UIPatterns[k].words, content)
    THEN UIPatterns[CHOOSE k \in DOMAIN UIPatterns :
            /\ TestAnyI(UIPatterns[k].words, content)
            /\ \A j \in 1..(k - 1) : ~TestAnyI(UIPatterns[j].words, content)
         ].pattern
    ELSE S_custom

\* detectUIFramework: the first framework whose regex matches, else undefined
UIFrameworks == <<
  [framework |-> <<"q", "t">>, words |-> <<<<"Q", "W", "i", "d", "g", "e", "t">>, <<"Q", "A", "p", "p", "l", "i", "c", "a", "t", "i", "o", "n">>, <<"Q", "t", ":", ":">>>>],
  [framework |-> <<"w", "x", "w", "i", "d", "g", "e", "t", "s">>, words |-> <<<<"w", "x", "W", "i", "d", "g", "e", "t", "s">>, <<"w", "x", ":", ":">>>>],
  [framework |-> <<"g", "t", "k">>, words |-> <<<<"g", "t", "k">>, <<"G", "t", "k", ":", ":">>>>],
  [framework |-> <<"w", "i", "n", "3", "2">>, words |-> <<<<"W", "i", "n", "3", "2">>, <<"W", "i", "n", "d", "o", "w", "s", ":", ":">>>>],
  [framework |-> <<"c", "o", "c", "o", "a">>, words |-> <<<<"N", "S", "V", "i", "e", "w">>, <<"N", "S", "W", "i", "n", "d", "o", "w">>, <<"C", "o", "c", "o", "a">>>>] >>

detectUIFramework(content) ==
  IF \E k \in DOMAIN UIFrameworks : TestAnyI(UIFrameworks[k].words, content)
    THEN UIFrameworks[CHOOSE k \in DOMAIN UIFrameworks :
            /\ TestAnyI(UIFrameworks[k].words, content)
            /\ \A j \in 1..(k - 1) : ~TestAnyI(UIFrameworks[j].words, content)
         ].framework
    ELSE Undefined

analyzeUIProperties(content) ==
  [hasValidation |-> TestAnyI(<<<<"v", "a", "l", "i", "d", "a", "t", "e">>, <<"v", "a", "l", "i", "d", "a", "t", "i", "o", "n">>, <<"c", "h", "e", "c", "k">>,
                                <<"v", "e", "r", "i", "f", "y">>>>, content),
   hasState |-> TestAnyI(<<<<"s", "t", "a", "t", "e">>, <<"s", "t", "a", "t", "u", "s">>, <<"e", "n", "a", "b", "l", "e", "d">>, <<"d", "i", "s", "a", "b", "l", "e", "d">>,
                           <<"v", "i", "s", "i", "b", "l", "e">>>>, content),
   hasEvents |-> TestAnyI(<<<<"s", "i", "g", "n", "a", "l">>, <<"s", "l", "o", "t">>, <<"e", "v", "e", "n", "t">>, <<"c", "a", "l", "l", "b", "a", "c", "k">>,
                            <<"o", "n", "C", "l", "i", "c", "k">>, <<"o", "n", "C", "h", "a", "n", "g", "e">>>>, content),
   isResponsive |-> TestAnyI(<<<<"r", "e", "s", "i", "z", "e">>, <<"l", "a", "y", "o", "u", "t">>, <<"r", "e", "s", "p", "o", "n", "s", "i", "v", "e">>,
                               <<"a", "d", "a", "p", "t", "i", "v", "e">>>>, content)]

\* path.extname(filePath): from the last "." of the base name, "" without one
extname(filePath) ==
  LET dots == {i \in DOMAIN filePath : filePath[i] = "."}
      slashes == {i \in DOMAIN filePath : filePath[i] = "/"}
      base == IF slashes = {} THEN 1
              ELSE 1 + CHOOSE i \in slashes : \A j \in slashes : j <= i
      after == {i \in dots : i > base}
  IN IF after = {} THEN <<>>
     ELSE SubSeq(filePath, CHOOSE i \in after : \A j \in after : j <= i,
                 Len(filePath))

detectLanguage(filePath) ==
  LET ext == toLowerCase(extname(filePath))
  IN CASE ext = <<".", "c", "p", "p">> -> S_cpp
       [] ext = <<".", "h">> -> S_h
       [] ext = <<".", "h", "p", "p">> -> S_hpp
       [] ext = <<".", "c", "c">> -> S_cc
       [] ext = <<".", "c", "x", "x">> -> S_cxx
       [] OTHER -> S_cpp

\* extractDataEntities: /(class|struct)\s+(\w+)/g, the second group of every
\* match
RECURSIVE extractEntitiesFrom(_, _)
extractEntitiesFrom(content, i) ==
  IF i > Len(content) THEN <<>>
  ELSE LET kw == IF MatchesAt(content, i, S_class, FALSE) THEN Len(S_class)
                 ELSE IF MatchesAt(content, i, S_struct, FALSE)
                   THEN Len(S_struct) ELSE 0
           ws == RunLen(content, i + kw, SpaceChars, TRUE)
           from == i + kw + ws
           n == RunLen(content, from, WordChars, TRUE)
       IN IF kw > 0 /\ ws > 0 /\ n > 0
            THEN <<SubSeq(content, from, from + n - 1)>>
                   \o extractEntitiesFrom(content, from + n)
            ELSE extractEntitiesFrom(content, i + 1)

extractDataEntities(content) == extractEntitiesFrom(content, 1)

\* content.match(/(https?:\/\/[^\s]+)/g)
RECURSIVE matchUrlsFrom(_, _)
matchUrlsFrom(content, i) ==
  IF i > Len(content) THEN <<>>
  ELSE LET scheme == IF MatchesAt(content, i, <<"h", "t", "t", "p", "s", ":", "/", "/">>, FALSE) THEN 8
                     ELSE IF MatchesAt(content, i, <<"h", "t", "t", "p", ":", "/", "/">>, FALSE) THEN 7
                     ELSE 0
           n == RunLen(content, i + scheme, SpaceChars, FALSE)
       IN IF scheme > 0 /\ n > 0
            THEN <<SubSeq(content, i, i + scheme + n - 1)>>
                   \o matchUrlsFrom(content, i + scheme + n)
            ELSE matchUrlsFrom(content, i + 1)

\* extractExternalAPIs: the matches of the three patterns, deduplicated
extractExternalAPIs(content) ==
  Dedup(matchUrlsFrom(content, 1)
          \o MatchAllWords(content, 1, ApiWords, TRUE)
          \o MatchAllWords(content, 1, ProtocolWords, TRUE))

\* generateSearchKeywords without the component's kind
generateSearchKeywords_noType(component) ==
  Dedup(SelectSeq(<<component.name, component.domain,
                    component.serviceCandidate>>
                    \o component.dependencies
                    \o extractDataEntities(component.content)
                    \o extractExternalAPIs(component.content),
                  Truthy))

\* generateSearchKeywords without the component's name
generateSearchKeywords_noName(component) ==
  Dedup(SelectSeq(<<component.type, component.domain,
                    component.serviceCandidate>>
                    \o component.dependencies
                    \o extractDataEntities(component.content)
                    \o extractExternalAPIs(component.content),
                  Truthy))

\* generateSearchKeywords: [...new Set(keywords.filter(Boolean))]
generateSearchKeywords(component) ==
  Dedup(SelectSeq(<<component.name, component.type, component.domain,
                    component.serviceCandidate>>
                    \o component.dependencies
                    \o extractDataEntities(component.content)
                    \o extractExternalAPIs(component.content),
                  Truthy))

\* generateTags: detectUIPattern never returns a falsy value, so the
\* 'ui-component' tag is pushed whenever the test at line 423 is evaluated
generateTags(component) ==
  LET tags == <<component.type, component.domain, component.serviceCandidate,
                detectLanguage(component.filePath)>>
      all == IF Truthy(detectUIPattern(component.content))
               THEN Append(tags, S_uiComponent) ELSE tags
  IN Dedup(SelectSeq(all, Truthy))

generateLabels(component) ==
  (IF component.complexity > 7 THEN <<S_highComplexity>> ELSE <<>>)
    \o (IF component.complexity < 3 THEN <<S_lowComplexity>> ELSE <<>>)
    \o (IF Len(component.dependencies) > 5 THEN <<S_highCoupling>> ELSE <<>>)
    \o (IF Len(component.dependencies) = 0 THEN <<S_independent>> ELSE <<>>)

calculateMigrationPriority(component) ==
  IF component.complexity > 7 \/ Len(component.dependencies) > 10 THEN S_high
  ELSE IF component.complexity > 4 \/ Len(component.dependencies) > 5
    THEN S_medium
  ELSE S_low

calculateMigrationComplexity(component) ==
  IF component.complexity > 8 \/ Truthy(detectUIPattern(component.content))
    THEN S_complex
  ELSE IF component.complexity > 5 \/ Len(component.dependencies) > 7
    THEN S_moderate
  ELSE S_simple

\* estimateMigrationEffort, computed in eighths of an hour:
\* Math.round(x) is floor(x + 0.5)
estimateMigrationEffort(component) ==
  LET base8 == component.complexity * 16 + Len(component.dependencies) * 4
      effort8 == IF Truthy(detectUIPattern(component.content))
                   THEN (base8 * 3) \div 2 ELSE base8
  IN (effort8 + 4) \div 8

\* extractBusinessFunction: the pattern table, in the order of Object.entries
BusinessFunctions == <<
  [function |-> <<"a", "u", "t", "h", "e", "n", "t", "i", "c", "a", "t", "i", "o", "n">>,
   words |-> <<<<"l", "o", "g", "i", "n">>, <<"a", "u", "t", "h">>, <<"p", "a", "s", "s", "w", "o", "r", "d">>, <<"u", "s", "e", "r">>, <<"s", "e", "s", "s", "i", "o", "n">>>>],
  [function |-> <<"a", "u", "t", "h", "o", "r", "i", "z", "a", "t", "i", "o", "n">>,
   words |-> <<<<"r", "o", "l", "e">>, <<"p", "e", "r", "m", "i", "s", "s", "i", "o", "n">>, <<"a", "c", "c", "e", "s", "s">>, <<"a", "d", "m", "i", "n">>>>],
  [function |-> <<"d", "a", "t", "a", "P", "r", "o", "c", "e", "s", "s", "i", "n", "g">>,
   words |-> <<<<"p", "r", "o", "c", "e", "s", "s">>, <<"t", "r", "a", "n", "s", "f", "o", "r", "m">>, <<"c", "o", "n", "v", "e", "r", "t">>, <<"c", "a", "l", "c", "u", "l", "a", "t", "e">>>>],
  [function |-> <<"r", "e", "p", "o", "r", "t", "i", "n", "g">>,
   words |-> <<<<"r", "e", "p", "o", "r", "t">>, <<"a", "n", "a", "l", "y", "t", "i", "c", "s">>, <<"s", "t", "a", "t", "i", "s", "t", "i", "c", "s">>, <<"m", "e", "t", "r", "i", "c", "s">>>>],
  [function |-> <<"c", "o", "m", "m", "u", "n", "i", "c", "a", "t", "i", "o", "n">>,
   words |-> <<<<"a", "p", "i">>, <<"h", "t", "t", "p">>, <<"s", "o", "c", "k", "e", "t">>, <<"m", "e", "s", "s", "a", "g", "e">>, <<"n", "e", "t", "w", "o", "r", "k">>>>] >>

\* extractBusinessFunction: the first function whose regex matches the name
\* or the content, else 'unknown'
extractBusinessFunction(component) ==
  LET hit(k) == \/ TestAnyI(BusinessFunctions[k].words, component.name)
                \/ TestAnyI(BusinessFunctions[k].words, component.content)
  IN IF \E k \in DOMAIN BusinessFunctions : hit(k)
       THEN BusinessFunctions[CHOOSE k \in DOMAIN BusinessFunctions :
               hit(k) /\ \A j \in 1..(k - 1) : ~hit(j)].function
       ELSE S_unknown

\* ${value} in a template literal: a missing value reads 'undefined'
TemplateText(s) == IF s = Undefined THEN <<"u", "n", "d", "e", "f", "i", "n", "e", "d">> ELSE s

\* generateSemanticContext
generateSemanticContext(component) ==
  component.name \o <<" ", "i", "s", " ", "a", " ">> \o component.type \o <<" ", "i", "n", " ", "t", "h", "e", " ">>
    \o TemplateText(component.domain) \o <<" ", "d", "o", "m", "a", "i", "n", ",", " ", "p", "a", "r", "t", " ", "o", "f", " ">>
    \o TemplateText(component.serviceCandidate) \o <<" ", "s", "e", "r", "v", "i", "c", "e", ".", " ">>
    \o extractBusinessFunction(component) \o <<" ", "f", "u", "n", "c", "t", "i", "o", "n", "a", "l", "i", "t", "y", ".">>

\* generateEnhancedMetadata raises a TypeError for a component without content
\* (createHash.update, line 219) or without a dependency list (the spread in
\* generateSearchKeywords, line 407)
enrichThrows(component) ==
  component.content = Undefined \/ component.dependencies = Undefined

\* generateEnhancedMetadata; now is the reading of new Date()
generateEnhancedMetadata(component, now) ==
  [name |-> component.name,
   type |-> component.type,
   filePath |-> component.filePath,
   lineNumber |-> component.lineNumber,
   content |-> substring0(component.content, ContentCap),
   contentLength |-> Len(component.content),
   language |-> detectLanguage(component.filePath),
   domain |-> OrElse(component.domain, S_unknown),
   serviceCandidate |-> OrElse(component.serviceCandidate, S_unknown),
   complexity |-> component.complexity,
   dependencies |-> component.dependencies,
   dependents |-> <<>>,
   uiPattern |-> detectUIPattern(component.content),
   uiFramework |-> detectUIFramework(component.content),
   uiProperties |-> analyzeUIProperties(component.content),
   migrationPriority |-> calculateMigrationPriority(component),
   migrationComplexity |-> calculateMigrationComplexity(component),
   estimatedEffort |-> estimateMigrationEffort(component),
   createdAt |-> now,
   updatedAt |-> now,
   tags |-> generateTags(component),
   labels |-> generateLabels(component),
   searchKeywords |-> generateSearchKeywords(component),
   semanticContext |-> generateSemanticContext(component)]

\* calculateContentQuality that takes content of 5000 characters for long
calculateContentQuality_longAt5000(component) ==
  LET q1 == IF Len(component.content) < 10 THEN 500 ELSE 1000
      q2 == IF Len(component.content) >= 5000 THEN (q1 * 8) \div 10 ELSE q1
      q3 == IF component.complexity > 10 THEN (q2 * 7) \div 10 ELSE q2
  IN IF q3 < 100 THEN 100 ELSE q3

\* calculateContentQuality, in thousandths
calculateContentQuality(component) ==
  LET q1 == IF Len(component.content) < 10 THEN 500 ELSE 1000
      q2 == IF Len(component.content) > 5000 THEN (q1 * 8) \div 10 ELSE q1
      q3 == IF component.complexity > 10 THEN (q2 * 7) \div 10 ELSE q2
  IN IF q3 < 100 THEN 100 ELSE q3

\* calculateMetadataCompleteness, in tenths: the truthy fields among the ten
\* required ones; the arrays and the metrics object are always truthy
calculateMetadataCompleteness(metadata) ==
  Cardinality({f \in {"name", "type", "filePath", "content", "domain",
                      "serviceCandidate", "migrationPriority"} :
                 Truthy(metadata[f])})
    + (IF metadata.complexity # 0 THEN 1 ELSE 0)
    + 2

(***************************************************************************)
(* Embedding Provider.  A vector is identified with the context it embeds: *)
(* the provider is taken to be deterministic and injective.                *)
(***************************************************************************)
\* embedComponent: the fields the context string is built from (the business
\* function is a function of name and content)
embedComponent(component) ==
  <<component.name, component.type, component.domain,
    component.serviceCandidate, substring0(component.content, 1000),
    component.dependencies>>

\* pineconeSearch: the embedding of the query text
embedQuery(query) == <<query>>

\* new Array(1536).fill(0)
ZeroVector == <<>>

(***************************************************************************)
(* What a call throws.                                                     *)
(***************************************************************************)
NoError == [kind |-> "none", id |-> 0]
EmbeddingError == [kind |-> "EmbeddingError", id |-> 0]
\* a method called on this.index while it is undefined
TypeError == [kind |-> "TypeError", id |-> 0]
\* the Vector Index Service did not answer
IndexError == [kind |-> "IndexError", id |-> 0]
\* a not-found error that does not say which id was asked for
NotFound_unnamed(componentId) == [kind |-> "NotFound", id |-> 0]

\* new Error(`Component ${componentId} not found in ...`)
NotFound(componentId) == [kind |-> "NotFound", id |-> componentId]

(***************************************************************************)
(* Fallback Store: LocalJSONStorage.                                       *)
(***************************************************************************)
FileAbsent == [state |-> "absent", records |-> <<>>]

\* save that appends to the persisted collection instead of replacing it
save_append(records) ==
  [state |-> "ok",
   records |-> (IF file.state = "ok" THEN file.records ELSE <<>>) \o records]

\* save that merges: the prior records of other ids are kept after the new
save_merge(records) ==
  [state |-> "ok",
   records |->
     records \o SelectSeq(IF file.state = "ok" THEN file.records ELSE <<>>,
                          LAMBDA p : \A i \in DOMAIN records :
                                       records[i].id # p.id)]

\* save: writeJson replaces the document
save(records) == [state |-> "ok", records |-> records]

\* load: readJson, and [] when it throws
load(f) == IF f.state = "ok" THEN f.records ELSE <<>>

\* clear: fs.remove
clear == FileAbsent

\* the value of the filters argument: undefined, or an object whose keys
\* carry a plain value (op "plain") or an operator object ({$eq: v}, ...)
NoFilter == [given |-> FALSE, constraints |-> {}]
FilterOf(cs) == [given |-> TRUE, constraints |-> cs]

\* filters.<field> is truthy and differs (!==) from the record's value: an
\* operator object is truthy and never identical to a string
FieldRejects(filters, metadata, field) ==
  \E c \in filters.constraints :
    /\ c.field = field
    /\ IF c.op = "plain" THEN Truthy(c.value) /\ metadata[field] # c.value
       ELSE TRUE

\* calculateRelevanceScore
calculateRelevanceScore(record, query) ==
  LET queryLower == toLowerCase(query)
      m == record.metadata
  IN (IF includes(toLowerCase(m.name), queryLower) THEN 10 ELSE 0)
     + (IF includes(toLowerCase(m.content), queryLower) THEN 5 ELSE 0)
     + (IF \E k \in DOMAIN m.searchKeywords :
             includes(toLowerCase(m.searchKeywords[k]), queryLower)
          THEN 3 ELSE 0)
     + (IF \E k \in DOMAIN m.tags :
             includes(toLowerCase(m.tags[k]), queryLower)
          THEN 2 ELSE 0)

\* the filter callback of LocalJSONStorage.search
searchKeeps(record, query, filters) ==
  LET queryLower == toLowerCase(query)
      m == record.metadata
      matchesQuery ==
        \/ includes(toLowerCase(m.name), queryLower)
        \/ includes(toLowerCase(m.content), queryLower)
        \/ \E k \in DOMAIN m.searchKeywords :
             includes(toLowerCase(m.searchKeywords[k]), queryLower)
  IN IF filters.given
          /\ \/ FieldRejects(filters, m, "type")
             \/ FieldRejects(filters, m, "domain")
             \/ FieldRejects(filters, m, "serviceCandidate")
       THEN FALSE
       ELSE matchesQuery

\* the insertion step of a sort that puts a record before the records of
\* equal key
RECURSIVE InsertDesc_tiesReversed(_, _)
InsertDesc_tiesReversed(sorted, p) ==
  IF sorted = <<>> THEN <<p>>
  ELSE IF sorted[1].key > p.key
    THEN <<sorted[1]>> \o InsertDesc_tiesReversed(Tail(sorted), p)
    ELSE <<p>> \o sorted

\* Array.prototype.sort with the comparator (a, b) => key(b) - key(a):
\* stable, descending by key; ps is the sequence of [x, key] pairs
RECURSIVE InsertDesc(_, _)
InsertDesc(sorted, p) ==
  IF sorted = <<>> THEN <<p>>
  ELSE IF sorted[1].key >= p.key
    THEN <<sorted[1]>> \o InsertDesc(Tail(sorted), p)
    ELSE <<p>> \o sorted

RECURSIVE SortPairsDesc(_)
SortPairsDesc(ps) ==
  IF ps = <<>> THEN <<>>
  ELSE InsertDesc(SortPairsDesc(SubSeq(ps, 1, Len(ps) - 1)), ps[Len(ps)])

SortDesc(xs, keys) ==
  LET sorted == SortPairsDesc([i \in DOMAIN xs |-> [x |-> xs[i], key |-> keys[i]]])
  IN [i \in DOMAIN sorted |-> sorted[i].x]

\* LocalJSONStorage.search
storageSearch(f, query, filters) ==
  LET kept == SelectSeq(load(f), LAMBDA r : searchKeeps(r, query, filters))
  IN SortDesc(kept, [i \in DOMAIN kept |->
                       calculateRelevanceScore(kept[i], query)])

\* Array.prototype.slice(0, n)
slice0(xs, n) == SubSeq(xs, 1, IF Len(xs) < n THEN Len(xs) ELSE n)

\* fallbackSearch
fallbackSearch(f, query, topK, filters) ==
  slice0(storageSearch(f, query, filters), topK)

\* calculateSimilarityScore with the keyword term weighted 0.5
calculateSimilarityScore_heavyKeywords(record1, record2) ==
  LET m1 == record1.metadata
      m2 == record2.metadata
      keywords1 == m1.searchKeywords
      keywords2 == m2.searchKeywords
      common == Len(SelectSeq(keywords1, LAMBDA k : k \in Range(keywords2)))
      mx == IF Len(keywords1) > Len(keywords2) THEN Len(keywords1)
            ELSE Len(keywords2)
      fixed == (IF m1.type = m2.type THEN 3 ELSE 0)
               + (IF m1.domain = m2.domain THEN 2 ELSE 0)
               + (IF m1.serviceCandidate = m2.serviceCandidate THEN 2 ELSE 0)
  IN [num |-> fixed * mx + 5 * common, den |-> 10 * mx]

\* calculateSimilarityScore, as the exact fraction num / den with
\* den = 10 * max(|keywords1|, |keywords2|); den = 0 is JavaScript's NaN
calculateSimilarityScore(record1, record2) ==
  LET m1 == record1.metadata
      m2 == record2.metadata
      keywords1 == m1.searchKeywords
      keywords2 == m2.searchKeywords
      common == Len(SelectSeq(keywords1, LAMBDA k : k \in Range(keywords2)))
      mx == IF Len(keywords1) > Len(keywords2) THEN Len(keywords1)
            ELSE Len(keywords2)
      fixed == (IF m1.type = m2.type THEN 3 ELSE 0)
               + (IF m1.domain = m2.domain THEN 2 ELSE 0)
               + (IF m1.serviceCandidate = m2.serviceCandidate THEN 2 ELSE 0)
  IN [num |-> fixed * mx + 3 * common, den |-> 10 * mx]

\* b.score - a.score > 0 on fractions
ScoreLess(a, b) == a.num * b.den < b.num * a.den

\* the stable descending sort of fallbackSimilarSearch, on fraction scores
RECURSIVE InsertByScore(_, _)
InsertByScore(sorted, x) ==
  IF sorted = <<>> THEN <<x>>
  ELSE IF ScoreLess(sorted[1].score, x.score)
    THEN <<x>> \o sorted
    ELSE <<sorted[1]>> \o InsertByScore(Tail(sorted), x)

RECURSIVE SortByScore(_)
SortByScore(xs) ==
  IF xs = <<>> THEN <<>>
  ELSE InsertByScore(SortByScore(SubSeq(xs, 1, Len(xs) - 1)), xs[Len(xs)])

\* fallbackSimilarSearch: the error it throws, or the result it returns
fallbackSimilarSearch(f, componentId, topK) ==
  LET records == load(f)
      found == {i \in DOMAIN records : records[i].id = componentId}
      targetRecord == records[CHOOSE i \in found : \A j \in found : i <= j]
      others == SelectSeq(records, LAMBDA r : r.id # componentId)
      scored == [i \in DOMAIN others |->
                   [id |-> others[i].id,
                    vector |-> others[i].vector,
                    metadata |-> others[i].metadata,
                    relationships |-> others[i].relationships,
                    quality |-> others[i].quality,
                    score |-> calculateSimilarityScore(targetRecord,
                                                       others[i])]]
  IN IF found = {}
       THEN [err |-> NotFound(componentId), result |-> <<>>]
       ELSE [err |-> NoError,
             result |-> slice0(SortByScore(scored), topK)]

\* fallbackServiceSearch without the equality on the service field
fallbackServiceSearch_all(f, serviceName) == load(f)

\* fallbackServiceSearch
fallbackServiceSearch(f, serviceName) ==
  SelectSeq(load(f), LAMBDA r : r.metadata.serviceCandidate = serviceName)

\* the fallback branch of deleteComponent removing only the first record of
\* the id
fallbackDelete_first(f, componentId) ==
  LET records == load(f)
      found == {i \in DOMAIN records : records[i].id = componentId}
      first == CHOOSE i \in found : \A j \in found : i <= j
  IN save(IF found = {} THEN records
          ELSE SubSeq(records, 1, first - 1)
                 \o SubSeq(records, first + 1, Len(records)))

\* deleteComponent, fallback branch: load, filter, save
fallbackDelete(f, componentId) ==
  save(SelectSeq(load(f), LAMBDA r : r.id # componentId))

(***************************************************************************)
(* Vector Index Service (external): a map from id to {values, metadata},   *)
(* with upsert by id, fetch, delete, delete-all, and a filtered top-K      *)
(* query.                                                                  *)
(***************************************************************************)
EmptyIndex == <<>>

\* upsert of one batch: a later vector of an id replaces the earlier one
IndexUpsert(v, batch) ==
  LET ids == {batch[k].id : k \in DOMAIN batch}
      latest(i) == LET ks == {k \in DOMAIN batch : batch[k].id = i}
                   IN batch[CHOOSE k \in ks : \A j \in ks : j <= k]
  IN [i \in DOMAIN v \cup ids |->
        IF i \in ids THEN [values |-> latest(i).values,
                           metadata |-> latest(i).metadata]
        ELSE v[i]]

IndexDelete(v, id) == [i \in DOMAIN v \ {id} |-> v[i]]

\* one constraint of a metadata filter on one metadata document; neAbsent
\* is what the service answers for $ne on a field the document lacks
Satisfies(metadata, c, neAbsent) ==
  LET present == c.field \in DOMAIN metadata
  IN CASE c.op \in {"plain", "$eq"} -> present /\ metadata[c.field] = c.value
       [] c.op = "$ne" -> IF present THEN metadata[c.field] # c.value
                          ELSE neAbsent
       [] c.op = "$gte" -> present /\ metadata[c.field] >= c.value
       [] c.op = "$lte" -> present /\ metadata[c.field] =< c.value
       [] c.op = "$exists" -> present = c.value

IndexMatching(v, filters, neAbsent) ==
  {i \in DOMAIN v :
     \A c \in filters.constraints : Satisfies(v[i].metadata, c, neAbsent)}

\* the orders in which the service may rank the ids of S for a query
\* vector: a stored vector equal to the query vector is nearest, the order
\* of the others is the service's
Rankings(v, S, vector) ==
  {r \in [1..Cardinality(S) -> S] :
     /\ \A i, j \in DOMAIN r : i # j => r[i] # r[j]
     /\ \A i, j \in DOMAIN r :
          (v[r[i]].values # vector /\ v[r[j]].values = vector) => j < i}

\* two of the rankings of S: by ascending and by descending id (every order
\* is a ranking when no stored vector equals the query vector)
IdOrders(v, S, vector) ==
  LET top == ServiceTopK + 1 + MaxOver
      up == SelectSeq([k \in 1..top |-> k], LAMBDA i : i \in S)
      down == SelectSeq([k \in 1..top |-> top + 1 - k], LAMBDA i : i \in S)
  IN {r \in {up, down} :
        \A k \in 1..(Len(r) - 1) :
          v[r[k]].values # vector => v[r[k + 1]].values # vector}

\* query: the first topK ids of the ranking, as matches without values
\* (includeValues is not asked for)
IndexQuery(v, ranking, topK) ==
  LET top == slice0(ranking, topK)
  IN [i \in DOMAIN top |-> [id |-> top[i], metadata |-> v[top[i]].metadata]]

\* searchResponse.matches?.map(...) of the three primary searches; the
\* service's score is not modelled
MapMatches(matches) ==
  [i \in DOMAIN matches |->
     [id |-> matches[i].id, vector |-> <<>>,
      metadata |-> matches[i].metadata]]

(***************************************************************************)
(* The inputs the model draws from.                                        *)
(***************************************************************************)
\* a component as the scanner first found it
CompA ==
  [id |-> 1, name |-> <<"A", "u", "t", "h">>, type |-> S_class,
   content |-> <<"c", "l", "a", "s", "s", " ", "S", "e", "s", "s", "i", "o", "n">>, filePath |-> <<"s", "r", "c", "/", "a", ".", "h">>, lineNumber |-> 1,
   dependencies |-> <<>>, domain |-> <<"s", "e", "c">>, serviceCandidate |-> <<"s", "1">>,
   complexity |-> 9]

\* the same id after a later scan: new content, another service, no domain
CompA2 ==
  [id |-> 1, name |-> <<"A", "u", "t", "h">>, type |-> S_class,
   content |-> <<"s", "t", "r", "u", "c", "t", " ", "T", "o", "k", "e", "n", " ", "a", "p", "i">>, filePath |-> <<"s", "r", "c", "/", "a", ".", "h">>,
   lineNumber |-> 1, dependencies |-> <<<<"l", "o", "g", "i", "n">>>>, domain |-> Undefined,
   serviceCandidate |-> <<"s", "2">>, complexity |-> 3]

CompB ==
  [id |-> 2, name |-> <<"l", "o", "g", "i", "n">>, type |-> S_function,
   content |-> <<"a", "u", "t", "h", " ", "f", "o", "r", "m">>, filePath |-> <<"s", "r", "c", "/", "b", ".", "c", "p", "p">>, lineNumber |-> 7,
   dependencies |-> <<<<"A", "u", "t", "h">>>>, domain |-> <<"a", "u", "t", "h">>,
   serviceCandidate |-> <<"s", "1">>, complexity |-> 5]

\* a long scan result: one component of service s2 followed by components of
\* service s1, up to MaxOver more of those than getServiceComponents asks
\* the Vector Index Service for
BulkComp(i) ==
  [id |-> i, name |-> <<"j", "o", "b">>, type |-> S_function,
   content |-> <<"r", "u", "n">>, filePath |-> <<"s", "r", "c", "/", "j", ".", "c", "p", "p">>, lineNumber |-> i,
   dependencies |-> <<>>, domain |-> Undefined,
   serviceCandidate |-> IF i = 1 THEN <<"s", "2">> ELSE <<"s", "1">>,
   complexity |-> 1]

BulkSizes == {ServiceTopK + 1 + k : k \in 0..MaxOver}

\* the scan results of these sizes
BulkLists ==
  {SubSeq([i \in 1..n |-> BulkComp(i)], 1, n) : n \in BulkSizes}

BulkIds == {1, 2}

BulkComps == {BulkComp(i) : i \in 1..(ServiceTopK + 1 + MaxOver)}

Components == {CompA, CompA2, CompB}

Ids == {c.id : c \in Components}

\* the lists one upsertComponents call is given
RECURSIVE SeqsUpTo(_, _)
SeqsUpTo(S, n) ==
  IF n = 0 THEN {<<>>}
  ELSE LET shorter == SeqsUpTo(S, n - 1)
       IN shorter \cup {Append(s, x) : s \in shorter, x \in S}

ComponentLists == SeqsUpTo(Components, MaxList)

Times == 1..MaxTime

TopKs == 1..MaxTopK

Q_AUTH == <<"A", "U", "T", "H">>
Q_s1 == <<"s", "1">>
Queries == {Q_AUTH, Q_s1}

Services == {<<"s", "1">>, <<"s", "2">>}

\* SearchCommand.buildFilter: { type: { $eq: options.type } }
F_typeEq == FilterOf({[field |-> "type", op |-> "$eq", value |-> S_class]})
\* the same equality given as a plain value
F_typePlain == FilterOf({[field |-> "type", op |-> "plain", value |-> S_class]})
\* searchByComplexity: { complexity: { $gte: min, $lte: max } }
F_complexity ==
  FilterOf({[field |-> "complexity", op |-> "$gte", value |-> 4],
            [field |-> "complexity", op |-> "$lte", value |-> 6]})

Filters == {NoFilter, F_typeEq, F_typePlain, F_complexity}

(***************************************************************************)
(* The engine: EnhancedPineconeService.                                    *)
(*                                                                         *)
(*   isOnline  the mode flag                                               *)
(*   index     this.index: "undefined" until initialize assigns a handle   *)
(*   probe     the outcome of initialize: "none" before it is called       *)
(*   vindex    the contents of the Vector Index Service                    *)
(*   file      the persisted document of the Fallback Store                *)
(*   last      the latest call on the engine: its arguments, the mode it   *)
(*             ran in, its error or result, and the collaborators called   *)
(***************************************************************************)
Call(op, arg, err, result, idx, fb) ==
  [op |-> op, arg |-> arg, online |-> isOnline, err |-> err,
   result |-> result, idx |-> idx, fb |-> fb, again |-> FALSE]

\* the record upsertComponents builds for one component
buildRecord(component, now) ==
  LET metadata == generateEnhancedMetadata(component, now)
  IN [id |-> component.id,
      vector |-> embedComponent(component),
      metadata |-> metadata,
      relationships |-> [similarComponents |-> <<>>,
                         relatedServices |-> <<>>,
                         dependencies |-> component.dependencies],
      quality |-> [embeddingQuality |-> 1000,
                   contentQuality |-> calculateContentQuality(component),
                   metadataCompleteness |->
                     calculateMetadataCompleteness(metadata)]]

\* buildRecord tabulated over the components and clock readings the engine
\* is given
RecordOf ==
  [c \in Components \cup BulkComps, now \in Times |-> buildRecord(c, now)]

\* upsertComponents: the loop over components
buildRecords(components, now) ==
  [i \in DOMAIN components |-> RecordOf[components[i], now]]

\* enhancedRecords.map(record => ({id, values, metadata}))
toVectors(records) ==
  [i \in DOMAIN records |->
     [id |-> records[i].id, values |-> records[i].vector,
      metadata |-> records[i].metadata]]

\* the number of batches without the last, partial one
NumBatches_floor(n) == n \div batchSize

\* Math.ceil(n / batchSize)
NumBatches(n) == (n + batchSize - 1) \div batchSize

\* vectors.slice(i, i + batchSize) of the k-th pass of the loop
Batch(vectors, k) ==
  SubSeq(vectors, (k - 1) * batchSize + 1,
         IF k * batchSize < Len(vectors) THEN k * batchSize ELSE Len(vectors))

\* the index after the first k batches have been upserted in order
RECURSIVE UpsertBatches(_, _, _)
UpsertBatches(v, vectors, k) ==
  IF k = 0 THEN v
  ELSE IndexUpsert(UpsertBatches(v, vectors, k - 1), Batch(vectors, k))

\* initialize whose catch block leaves the flag as it was
initializeOnline_catchKeepsFlag(hasName, probeOk) == hasName

\* initialize: the value it leaves in isOnline
initializeOnline(hasName, probeOk) == hasName /\ probeOk

\* initialize, called once, at start-up; hasName: an index name is
\* configured, probeOk: the service answers describeIndexStats
Initialize(hasName, probeOk) ==
  /\ probe = "none"
  /\ isOnline' = initializeOnline(hasName, probeOk)
  /\ index' = IF hasName THEN "handle" ELSE index
  /\ probe' = IF ~hasName THEN "noname" ELSE IF probeOk THEN "ok" ELSE "failed"
  /\ last' = Call("initialize", [hasName |-> hasName, probeOk |-> probeOk],
                  NoError, <<>>, hasName, FALSE)
  /\ UNCHANGED <<vindex, file>>

\* upsertComponents that skips a component whose embedding fails and stores
\* the records built before it
UpsertComponents_keepsEmbedded(components, now, embedFailAt, upsertFailAt) ==
  LET enhancedRecords == buildRecords(components, now)
      built == SubSeq(enhancedRecords, 1, embedFailAt - 1)
      done(err, idx, fb) ==
        Call("upsertComponents", components, err, <<>>, idx, fb)
  IN /\ embedFailAt \in 0..Len(components)
     /\ upsertFailAt \in 0..NumBatches(Len(components))
     /\ IF embedFailAt > 0
          THEN /\ last' = done(EmbeddingError, FALSE, FALSE)
               /\ IF isOnline
                    THEN UNCHANGED <<vindex, file>>
                    ELSE file' = save(built) /\ UNCHANGED vindex
        ELSE IF isOnline
          THEN IF components = <<>> \/ index = "undefined"
                 THEN /\ last' = done(IF components = <<>> THEN NoError
                                      ELSE TypeError, FALSE, FALSE)
                      /\ UNCHANGED <<vindex, file>>
               ELSE /\ vindex' = UpsertBatches(vindex,
                                               toVectors(enhancedRecords),
                                               IF upsertFailAt > 0
                                                 THEN upsertFailAt - 1
                                                 ELSE NumBatches(Len(components)))
                    /\ last' = done(IF upsertFailAt > 0 THEN IndexError
                                    ELSE NoError, TRUE, FALSE)
                    /\ UNCHANGED file
          ELSE /\ file' = save(enhancedRecords)
               /\ last' = done(NoError, FALSE, TRUE)
               /\ UNCHANGED vindex
     /\ UNCHANGED <<isOnline, index, probe>>

\* upsertComponents; embedFailAt: the component whose embedding request
\* fails (0: none), upsertFailAt: the batch whose upsert fails (0: none).
\* The result recorded for the call is the list of the upsert calls it
\* issued, each as the ids of its batch.
UpsertComponents(components, now, embedFailAt, upsertFailAt) ==
  LET enhancedRecords == buildRecords(components, now)
      vectors == toVectors(enhancedRecords)
      again == /\ last.op = "upsertComponents"
               /\ last.err = NoError
               /\ last.arg = components
               /\ last.online = isOnline
      ids == [i \in DOMAIN components |-> components[i].id]
      issued(k) == [b \in 1..k |-> Batch(ids, b)]
      done(err, k, idx, fb) ==
        [Call("upsertComponents", components, err, issued(k), idx, fb)
           EXCEPT !.again = again /\ err = NoError]
  IN /\ embedFailAt \in 0..Len(components)
     /\ upsertFailAt \in 0..NumBatches(Len(vectors))
     /\ IF embedFailAt > 0
          THEN /\ last' = done(EmbeddingError, 0, FALSE, FALSE)
               /\ UNCHANGED <<vindex, file>>
        ELSE IF isOnline
          THEN IF vectors = <<>>
                 THEN /\ last' = done(NoError, 0, FALSE, FALSE)
                      /\ UNCHANGED <<vindex, file>>
               ELSE IF index = "undefined"
                 THEN /\ last' = done(TypeError, 0, FALSE, FALSE)
                      /\ UNCHANGED <<vindex, file>>
               ELSE IF upsertFailAt > 0
                 THEN /\ vindex' = UpsertBatches(vindex, vectors,
                                                 upsertFailAt - 1)
                      /\ last' = done(IndexError, upsertFailAt, TRUE, FALSE)
                      /\ UNCHANGED file
               ELSE /\ vindex' = UpsertBatches(vindex, vectors,
                                               NumBatches(Len(vectors)))
                    /\ last' = done(NoError, NumBatches(Len(vectors)),
                                    TRUE, FALSE)
                    /\ UNCHANGED file
          ELSE /\ file' = save(enhancedRecords)
               /\ last' = done(NoError, 0, FALSE, TRUE)
               /\ UNCHANGED vindex
     /\ UNCHANGED <<isOnline, index, probe>>

\* semanticSearch; in primary mode the query embedding or the service may
\* fail, and the service ranks the matching vectors in an order of its own
SemanticSearch(query, topK, filters) ==
  LET arg == [query |-> query, topK |-> topK, filters |-> filters]
      done(err, result, idx, fb) ==
        Call("semanticSearch", arg, err, result, idx, fb)
  IN /\ IF isOnline
          THEN \/ last' = done(EmbeddingError, <<>>, FALSE, FALSE)
               \/ /\ index = "undefined"
                  /\ last' = done(TypeError, <<>>, FALSE, FALSE)
               \/ /\ index # "undefined"
                  /\ last' = done(IndexError, <<>>, TRUE, FALSE)
               \/ /\ index # "undefined"
                  /\ \E ranking \in
                          Rankings(vindex,
                                   IndexMatching(vindex, filters, FALSE),
                                   embedQuery(query)) :
                       last' = done(NoError,
                                    MapMatches(IndexQuery(vindex, ranking,
                                                          topK)),
                                    TRUE, FALSE)
          ELSE last' = done(NoError,
                            fallbackSearch(file, query, topK, filters),
                            FALSE, TRUE)
     /\ UNCHANGED <<isOnline, index, probe, vindex, file>>

\* findSimilarComponents; the service may fail at the fetch or at the
\* query; neAbsent is its answer for $ne on a field a document lacks
FindSimilarComponents(componentId, topK) ==
  LET arg == [componentId |-> componentId, topK |-> topK]
      done(err, result, idx, fb) ==
        Call("findSimilarComponents", arg, err, result, idx, fb)
      filter == FilterOf({[field |-> "id", op |-> "$ne",
                           value |-> componentId]})
  IN /\ IF isOnline
          THEN \/ /\ index = "undefined"
                  /\ last' = done(TypeError, <<>>, FALSE, FALSE)
               \/ /\ index # "undefined"
                  /\ last' = done(IndexError, <<>>, TRUE, FALSE)
               \/ /\ index # "undefined"
                  /\ componentId \notin DOMAIN vindex
                  /\ last' = done(NotFound(componentId), <<>>, TRUE, FALSE)
               \/ /\ index # "undefined"
                  /\ componentId \in DOMAIN vindex
                  /\ \E neAbsent \in BOOLEAN :
                       \E ranking \in
                           Rankings(vindex,
                                    IndexMatching(vindex, filter, neAbsent),
                                    vindex[componentId].values) :
                         last' = done(NoError,
                                      MapMatches(IndexQuery(vindex, ranking,
                                                            topK + 1)),
                                      TRUE, FALSE)
          ELSE LET out == fallbackSimilarSearch(file, componentId, topK)
               IN last' = done(out.err, out.result, FALSE, TRUE)
     /\ UNCHANGED <<isOnline, index, probe, vindex, file>>

\* getServiceComponents; anyOrder: every order in which the service may
\* rank the matches is followed, otherwise the two orders by id
GetServiceComponents(serviceName, anyOrder) ==
  LET done(err, result, idx, fb) ==
        Call("getServiceComponents", serviceName, err, result, idx, fb)
      filter == FilterOf({[field |-> "serviceCandidate", op |-> "$eq",
                           value |-> serviceName]})
  IN /\ IF isOnline
          THEN \/ /\ index = "undefined"
                  /\ last' = done(TypeError, <<>>, FALSE, FALSE)
               \/ /\ index # "undefined"
                  /\ last' = done(IndexError, <<>>, TRUE, FALSE)
               \/ /\ index # "undefined"
                  /\ \E ranking \in
                          IF anyOrder
                            THEN Rankings(vindex,
                                          IndexMatching(vindex, filter, FALSE),
                                          ZeroVector)
                            ELSE IdOrders(vindex,
                                          IndexMatching(vindex, filter, FALSE),
                                          ZeroVector) :
                       last' = done(NoError,
                                    MapMatches(IndexQuery(vindex, ranking,
                                                          ServiceTopK)),
                                    TRUE, FALSE)
          ELSE last' = done(NoError,
                            fallbackServiceSearch(file, serviceName),
                            FALSE, TRUE)
     /\ UNCHANGED <<isOnline, index, probe, vindex, file>>

\* deleteComponent that falls back to the local store, and stays there, when
\* the service does not answer
DeleteComponent_autoFallback(componentId, indexOk) ==
  LET done(err, idx, fb) ==
        Call("deleteComponent", componentId, err, <<>>, idx, fb)
  IN IF isOnline /\ index # "undefined" /\ ~indexOk
       THEN /\ isOnline' = FALSE
            /\ file' = fallbackDelete(file, componentId)
            /\ last' = done(NoError, TRUE, TRUE)
            /\ UNCHANGED <<index, probe, vindex>>
       ELSE /\ IF isOnline
                 THEN IF index = "undefined"
                        THEN /\ last' = done(TypeError, FALSE, FALSE)
                             /\ UNCHANGED <<vindex, file>>
                      ELSE /\ vindex' = IndexDelete(vindex, componentId)
                           /\ last' = done(NoError, TRUE, FALSE)
                           /\ UNCHANGED file
                 ELSE /\ file' = fallbackDelete(file, componentId)
                      /\ last' = done(NoError, FALSE, TRUE)
                      /\ UNCHANGED vindex
            /\ UNCHANGED <<isOnline, index, probe>>

\* deleteComponent
DeleteComponent(componentId, indexOk) ==
  LET done(err, idx, fb) ==
        Call("deleteComponent", componentId, err, <<>>, idx, fb)
  IN /\ IF isOnline
          THEN IF index = "undefined"
                 THEN /\ last' = done(TypeError, FALSE, FALSE)
                      /\ UNCHANGED <<vindex, file>>
               ELSE IF ~indexOk
                 THEN /\ last' = done(IndexError, TRUE, FALSE)
                      /\ UNCHANGED <<vindex, file>>
               ELSE /\ vindex' = IndexDelete(vindex, componentId)
                    /\ last' = done(NoError, TRUE, FALSE)
                    /\ UNCHANGED file
          ELSE /\ file' = fallbackDelete(file, componentId)
               /\ last' = done(NoError, FALSE, TRUE)
               /\ UNCHANGED vindex
     /\ UNCHANGED <<isOnline, index, probe>>

\* clearIndex
ClearIndex(indexOk) ==
  LET done(err, idx, fb) == Call("clearIndex", <<>>, err, <<>>, idx, fb)
  IN /\ IF isOnline
          THEN IF index = "undefined"
                 THEN /\ last' = done(TypeError, FALSE, FALSE)
                      /\ UNCHANGED <<vindex, file>>
               ELSE IF ~indexOk
                 THEN /\ last' = done(IndexError, TRUE, FALSE)
                      /\ UNCHANGED <<vindex, file>>
               ELSE /\ vindex' = EmptyIndex
                    /\ last' = done(NoError, TRUE, FALSE)
                    /\ UNCHANGED file
          ELSE /\ file' = clear
               /\ last' = done(NoError, FALSE, TRUE)
               /\ UNCHANGED vindex
     /\ UNCHANGED <<isOnline, index, probe>>

\* getIndexStats that falls back to the local document once the Vector
\* Index Service has rejected its call
GetIndexStats_fallsBack(indexOk) ==
  LET done(err, result, idx, fb) ==
        Call("getIndexStats", <<>>, err, result, idx, fb)
  IN /\ last' =
          IF isOnline
            THEN IF index = "undefined"
                   THEN done(TypeError, <<>>, FALSE, FALSE)
                 ELSE IF ~indexOk THEN done(IndexError, <<>>, TRUE, FALSE)
                 ELSE done(NoError,
                           [totalVectorCount |-> Cardinality(DOMAIN vindex)],
                           TRUE, FALSE)
            ELSE done(NoError, [totalVectorCount |-> Len(load(file))],
                      FALSE, TRUE)
     /\ isOnline' = (isOnline /\ (index = "undefined" \/ indexOk))
     /\ UNCHANGED <<index, probe, vindex, file>>

\* getIndexStats
GetIndexStats(indexOk) ==
  LET done(err, result, idx, fb) ==
        Call("getIndexStats", <<>>, err, result, idx, fb)
  IN /\ last' =
          IF isOnline
            THEN IF index = "undefined"
                   THEN done(TypeError, <<>>, FALSE, FALSE)
                 ELSE IF ~indexOk THEN done(IndexError, <<>>, TRUE, FALSE)
                 ELSE done(NoError,
                           [totalVectorCount |-> Cardinality(DOMAIN vindex)],
                           TRUE, FALSE)
            ELSE done(NoError, [totalVectorCount |-> Len(load(file))],
                      FALSE, TRUE)
     /\ UNCHANGED <<isOnline, index, probe, vindex, file>>

\* the query texts and sizes of the two analytics reports
Q_UI == <<"U", "I", " ", "c", "o", "m", "p", "o", "n", "e", "n", "t", "s">>
Q_all == <<"a", "l", "l", " ", "c", "o", "m", "p", "o", "n", "e", "n", "t", "s">>
UIAnalysisTopK == 1000
MigrationTopK == 10000

\* (counts[k] || 0) + 1 over a list of keys
CountBy(keys) ==
  [k \in Range(keys) |-> Cardinality({i \in DOMAIN keys : keys[i] = k})]

\* estimatedTotalEffort += component.metadata.estimatedEffort
RECURSIVE SumEffort(_)
SumEffort(records) ==
  IF records = <<>> THEN 0
  ELSE records[1].metadata.estimatedEffort + SumEffort(Tail(records))

\* the report getUIAnalysis builds from the components its search returned
uiAnalysis(uiComponents) ==
  LET field(name) == [i \in DOMAIN uiComponents |->
                        uiComponents[i].metadata[name]]
      flagged(name) ==
        Cardinality({i \in DOMAIN uiComponents :
                       uiComponents[i].metadata.uiProperties[name]})
  IN [totalUIComponents |-> Len(uiComponents),
      patterns |-> CountBy(SelectSeq(field("uiPattern"), Truthy)),
      frameworks |-> CountBy(SelectSeq(field("uiFramework"), Truthy)),
      properties |->
        [hasValidation |-> flagged("hasValidation"),
         hasState |-> flagged("hasState"),
         hasEvents |-> flagged("hasEvents"),
         isResponsive |-> flagged("isResponsive")]]

\* the report getMigrationAnalysis builds from the components it was given
migrationAnalysis(allComponents) ==
  LET field(name) == [i \in DOMAIN allComponents |->
                        allComponents[i].metadata[name]]
  IN [totalComponents |-> Len(allComponents),
      migrationPriorities |-> CountBy(field("migrationPriority")),
      migrationComplexities |-> CountBy(field("migrationComplexity")),
      estimatedTotalEffort |-> SumEffort(allComponents),
      domains |-> CountBy(field("domain")),
      services |-> CountBy(field("serviceCandidate"))]

\* getUIAnalysis: semanticSearch('UI components', 1000, {uiPattern:
\* {$exists: true}}) and the report over what it returns
GetUIAnalysis ==
  LET filter == FilterOf({[field |-> "uiPattern", op |-> "$exists",
                           value |-> TRUE]})
      done(err, result, idx, fb) ==
        Call("getUIAnalysis", <<>>, err, result, idx, fb)
  IN /\ IF isOnline
          THEN \/ last' = done(EmbeddingError, <<>>, FALSE, FALSE)
               \/ /\ index = "undefined"
                  /\ last' = done(TypeError, <<>>, FALSE, FALSE)
               \/ /\ index # "undefined"
                  /\ last' = done(IndexError, <<>>, TRUE, FALSE)
               \/ /\ index # "undefined"
                  /\ \E ranking \in
                          Rankings(vindex,
                                   IndexMatching(vindex, filter, FALSE),
                                   embedQuery(Q_UI)) :
                       last' = done(NoError,
                                    uiAnalysis(MapMatches(
                                      IndexQuery(vindex, ranking,
                                                 UIAnalysisTopK))),
                                    TRUE, FALSE)
          ELSE last' = done(NoError,
                            uiAnalysis(fallbackSearch(file, Q_UI,
                                                      UIAnalysisTopK, filter)),
                            FALSE, TRUE)
     /\ UNCHANGED <<isOnline, index, probe, vindex, file>>

\* getMigrationAnalysis: pineconeSearch('all components', 10000) in primary
\* mode, the whole local document in fallback mode
GetMigrationAnalysis ==
  LET done(err, result, idx, fb) ==
        Call("getMigrationAnalysis", <<>>, err, result, idx, fb)
  IN /\ IF isOnline
          THEN \/ last' = done(EmbeddingError, <<>>, FALSE, FALSE)
               \/ /\ index = "undefined"
                  /\ last' = done(TypeError, <<>>, FALSE, FALSE)
               \/ /\ index # "undefined"
                  /\ last' = done(IndexError, <<>>, TRUE, FALSE)
               \/ /\ index # "undefined"
                  /\ \E ranking \in
                          Rankings(vindex,
                                   IndexMatching(vindex, NoFilter, FALSE),
                                   embedQuery(Q_all)) :
                       last' = done(NoError,
                                    migrationAnalysis(MapMatches(
                                      IndexQuery(vindex, ranking,
                                                 MigrationTopK))),
                                    TRUE, FALSE)
          ELSE last' = done(NoError, migrationAnalysis(load(file)),
                            FALSE, TRUE)
     /\ UNCHANGED <<isOnline, index, probe, vindex, file>>

\* the clock reading of one upsertComponents call and where it fails, if it
\* does: at the embedding of one component, or at the upsert of one batch
UpsertFaults(n) ==
  {<<1, embedFailAt, 0>> : embedFailAt \in 1..n}
    \cup {<<now, 0, upsertFailAt>> :
            now \in Times,
            upsertFailAt \in IF isOnline THEN 0..NumBatches(n) ELSE {0}}

\* what an earlier run may have left in the two stores
PriorFiles ==
  {FileAbsent, [state |-> "ok", records |-> <<RecordOf[CompB, 1]>>]}
PriorIndexes ==
  {EmptyIndex, IndexUpsert(EmptyIndex, toVectors(<<RecordOf[CompA, 1]>>))}

\* the state after construction
Init ==
  /\ isOnline = TRUE
  /\ index = "undefined"
  /\ probe = "none"
  /\ vindex \in PriorIndexes
  /\ file \in PriorFiles
  /\ last = [op |-> "constructor", arg |-> <<>>, online |-> TRUE,
             err |-> NoError, result |-> <<>>, idx |-> FALSE, fb |-> FALSE,
             again |-> FALSE]

Next ==
  \/ \E hasName, probeOk \in BOOLEAN : Initialize(hasName, probeOk)
  \/ \E components \in ComponentLists :
       \E faults \in UpsertFaults(Len(components)) :
         UpsertComponents(components, faults[1], faults[2], faults[3])
  \/ \E query \in Queries, topK \in TopKs, filters \in Filters :
       SemanticSearch(query, topK, filters)
  \/ \E componentId \in Ids, topK \in TopKs :
       FindSimilarComponents(componentId, topK)
  \/ \E serviceName \in Services : GetServiceComponents(serviceName, TRUE)
  \/ \E componentId \in Ids, indexOk \in BOOLEAN :
       DeleteComponent(componentId, indexOk)
  \/ \E indexOk \in BOOLEAN : ClearIndex(indexOk)
  \/ \E indexOk \in BOOLEAN : GetIndexStats(indexOk)
  \/ GetUIAnalysis
  \/ GetMigrationAnalysis

Spec == Init /\ [][Next]_vars

(***************************************************************************)
(* The engine given a long scan result: more components of one service     *)
(* than getServiceComponents asks the Vector Index Service for.            *)
(***************************************************************************)
InitBulk ==
  /\ isOnline = TRUE
  /\ index = "undefined"
  /\ probe = "none"
  /\ vindex = EmptyIndex
  /\ file = FileAbsent
  /\ last = [op |-> "constructor", arg |-> <<>>, online |-> TRUE,
             err |-> NoError, result |-> <<>>, idx |-> FALSE, fb |-> FALSE,
             again |-> FALSE]

NextBulk ==
  \/ \E hasName, probeOk \in BOOLEAN : Initialize(hasName, probeOk)
  \/ \E components \in BulkLists : UpsertComponents(components, 1, 0, 0)
  \/ \E serviceName \in Services : GetServiceComponents(serviceName, FALSE)
  \/ \E componentId \in BulkIds : DeleteComponent(componentId, TRUE)
  \/ ClearIndex(TRUE)
  \/ GetIndexStats(TRUE)

SpecBulk == InitBulk /\ [][NextBulk]_vars

(***************************************************************************)
(* The ingest of lists of one, two and three batches, where the Vector     *)
(* Index Service may reject any one of the upsert calls.                   *)
(***************************************************************************)
BatchLists ==
  {SubSeq([i \in 1..n |-> BulkComp(i)], 1, n)
     : n \in {batchSize, batchSize + 1, 2 * batchSize + 1}}

NextBatch ==
  \/ \E hasName, probeOk \in BOOLEAN : Initialize(hasName, probeOk)
  \/ \E components \in BatchLists :
       \E upsertFailAt \in 0..NumBatches(Len(components)) :
         UpsertComponents(components, 1, 0, upsertFailAt)
  \/ \E componentId \in BulkIds : DeleteComponent(componentId, TRUE)
  \/ ClearIndex(TRUE)
  \/ GetIndexStats(TRUE)

SpecBatch == InitBulk /\ [][NextBatch]_vars

(***************************************************************************)
(* The Metadata Enricher and the two scores on their own: each step        *)
(* enriches one component, scores the content of one, or scores the        *)
(* similarity of two records.                                              *)
(***************************************************************************)
\* the components handed to the enricher; a malformed component lacks its
\* content or its dependency list
EnrichComponents ==
  LET names == {<<>>, <<"A", "u", "t", "h">>}
      contents == {Undefined, <<>>, <<"r", "u", "n">>, <<"a", "u", "t", "h", " ", "f", "o", "r", "m">>}
      eight == <<<<"d", "e", "p", "1">>, <<"d", "e", "p", "2">>, <<"d", "e", "p", "3">>, <<"d", "e", "p", "4">>, <<"d", "e", "p", "5">>, <<"d", "e", "p", "6">>, <<"d", "e", "p", "7">>, <<"d", "e", "p", "8">>>>
      twelve == eight \o <<<<"d", "e", "p", "9">>, <<"d", "e", "p", "1", "0">>, <<"d", "e", "p", "1", "1">>, <<"d", "e", "p", "1", "2">>>>
      dependencyLists == {Undefined, <<>>, eight, twelve}
      labelPairs == {<<Undefined, Undefined>>, <<<<"a", "u", "t", "h">>, <<"s", "1">>>>}
      complexities == {5, 6, 9}
  IN {[id |-> 1, name |-> name, type |-> S_class, content |-> content,
       filePath |-> <<"s", "r", "c", "/", "a", ".", "c", "p", "p">>, lineNumber |-> 1,
       dependencies |-> dependencies, domain |-> labels[1],
       serviceCandidate |-> labels[2], complexity |-> complexity] :
        name \in names, content \in contents,
        dependencies \in dependencyLists, labels \in labelPairs,
        complexity \in complexities}

\* the components whose content quality is scored: content lengths and
\* complexities on both sides of each threshold
QualityComponents ==
  LET lengths == {0, 9, 10, 5000, 5001}
      complexities == {10, 11}
  IN {[id |-> 1, name |-> <<"j", "o", "b">>, type |-> S_function,
       content |-> [i \in 1..n |-> "x"], filePath |-> <<"s", "r", "c", "/", "j", ".", "c", "p", "p">>,
       lineNumber |-> 1, dependencies |-> <<>>, domain |-> Undefined,
       serviceCandidate |-> Undefined, complexity |-> complexity] :
        n \in lengths, complexity \in complexities}

\* the components whose records are scored against each other
SimilarityComponents == Components \cup {BulkComp(1), BulkComp(2)}

\* one pass of the loop body of upsertComponents on one component
Enrich(component, now) ==
  /\ last' = IF enrichThrows(component)
               THEN Call("enrich", component, TypeError, <<>>, FALSE, FALSE)
               ELSE Call("enrich", component, NoError,
                         buildRecord(component, now), FALSE, FALSE)
  /\ UNCHANGED <<isOnline, index, probe, vindex, file>>

\* calculateContentQuality of one component
ContentQuality(component) ==
  /\ last' = Call("calculateContentQuality", component, NoError,
                  calculateContentQuality(component), FALSE, FALSE)
  /\ UNCHANGED <<isOnline, index, probe, vindex, file>>

\* calculateSimilarityScore of two records, in both orders
Similarity(record1, record2) ==
  /\ last' = Call("calculateSimilarityScore", <<record1, record2>>, NoError,
                  [forward |-> calculateSimilarityScore(record1, record2),
                   backward |-> calculateSimilarityScore(record2, record1)],
                  FALSE, FALSE)
  /\ UNCHANGED <<isOnline, index, probe, vindex, file>>

InitEnrich == InitBulk

NextEnrich ==
  \/ \E component \in EnrichComponents, now \in Times : Enrich(component, now)
  \/ \E component \in QualityComponents : ContentQuality(component)
  \/ \E c1, c2 \in SimilarityComponents :
       Similarity(RecordOf[c1, 1], RecordOf[c2, 1])

SpecEnrich == InitEnrich /\ [][NextEnrich]_vars

(***************************************************************************)
(* The Fallback Store on a real disk.  The persisted document may exist    *)
(* and yet not be readable as JSON ("corrupt"), and writeJson is not one   *)
(* step: it opens the document, which truncates it, and the text arrives   *)
(* later ("writing").  Other calls on the engine run between the two.      *)
(*                                                                         *)
(*   file.records  while writing: the records writeJson is writing         *)
(*   file.before   while writing: what load() returned before the write    *)
(*   file.call     while writing: the argument of the call in progress     *)
(***************************************************************************)
FileCorrupt == [state |-> "corrupt", records |-> <<>>]

\* a document that holds a record but that readJson cannot read at the
\* moment (the read is refused or fails): load() answers [] for it as well
FileUnreadable ==
  [state |-> "unreadable", records |-> <<RecordOf[CompB, 1]>>]

\* upsertComponents in fallback mode up to the point where writeJson has
\* opened the document
UpsertWriteBegins(components, now) ==
  /\ ~isOnline
  /\ file.state # "writing"
  /\ file' = [state |-> "writing",
              records |-> buildRecords(components, now),
              before |-> load(file),
              call |-> components]
  /\ UNCHANGED <<isOnline, index, probe, vindex, last>>

\* the rest of that call: writeJson completes and upsertComponents returns
UpsertWriteEnds ==
  /\ file.state = "writing"
  /\ file' = save(file.records)
  /\ last' = Call("upsertComponents", file.call, NoError, <<>>, FALSE, TRUE)
  /\ UNCHANGED <<isOnline, index, probe, vindex>>

InitStore ==
  /\ isOnline = TRUE
  /\ index = "undefined"
  /\ probe = "none"
  /\ vindex = EmptyIndex
  /\ file \in PriorFiles \cup {FileCorrupt, FileUnreadable}
  /\ last = [op |-> "constructor", arg |-> <<>>, online |-> TRUE,
             err |-> NoError, result |-> <<>>, idx |-> FALSE, fb |-> FALSE,
             again |-> FALSE]

NextStore ==
  \/ \E hasName, probeOk \in BOOLEAN : Initialize(hasName, probeOk)
  \/ \E components \in ComponentLists : UpsertWriteBegins(components, 1)
  \/ UpsertWriteEnds
  \/ \E query \in Queries \cup {S_uiComponent} :
       SemanticSearch(query, MaxTopK, NoFilter)
  \/ \E componentId \in Ids : FindSimilarComponents(componentId, MaxTopK)
  \/ \E serviceName \in Services : GetServiceComponents(serviceName, TRUE)
  \/ \E componentId \in Ids :
       file.state # "writing" /\ DeleteComponent(componentId, TRUE)
  \/ GetIndexStats(TRUE)
  \/ GetMigrationAnalysis

SpecStore == InitStore /\ [][NextStore]_vars

(***************************************************************************)
(* deleteComponent of the fallback branch as the two steps its awaits make *)
(* it: the call reads the document, is suspended, and later writes the     *)
(* document without the record.  Calls for different ids may be in flight  *)
(* together.  last.result holds the calls suspended between their load and *)
(* their save, each with the records it loaded, the ids whose calls have   *)
(* completed since a call was last issued with no other in flight, and the *)
(* records the document held at that moment.                               *)
(***************************************************************************)
DeleteOps == {"deleteComponent:load", "deleteComponent:save"}

InFlight == IF last.op \in DeleteOps THEN last.result.pending ELSE {}

\* const records = await this.fallbackStorage.load();
DeleteLoads(componentId) ==
  LET alone == InFlight = {}
      completed == IF alone THEN {} ELSE last.result.completed
      before == IF alone THEN load(file) ELSE last.result.before
  IN /\ ~isOnline
     /\ componentId \notin {p.id : p \in InFlight} \cup completed
     /\ last' = Call("deleteComponent:load", componentId, NoError,
                     [pending |-> InFlight \cup {[id |-> componentId,
                                                  records |-> load(file)]},
                      completed |-> completed,
                      before |-> before],
                     FALSE, TRUE)
     /\ UNCHANGED <<isOnline, index, probe, vindex, file>>

\* const filteredRecords = records.filter(r => r.id !== componentId);
\* await this.fallbackStorage.save(filteredRecords);
DeleteSaves(componentId) ==
  /\ \E p \in InFlight :
       /\ p.id = componentId
       /\ file' = save(SelectSeq(p.records, LAMBDA r : r.id # componentId))
       /\ last' = Call("deleteComponent:save", componentId, NoError,
                       [pending |-> InFlight \ {p},
                        completed |-> last.result.completed
                                        \cup {componentId},
                        before |-> last.result.before],
                       FALSE, TRUE)
  /\ UNCHANGED <<isOnline, index, probe, vindex>>

NextDeletes ==
  \/ \E hasName, probeOk \in BOOLEAN :
       InFlight = {} /\ Initialize(hasName, probeOk)
  \/ \E components \in ComponentLists :
       InFlight = {} /\ UpsertComponents(components, 1, 0, 0)
  \/ \E componentId \in Ids : DeleteLoads(componentId)
  \/ \E componentId \in Ids : DeleteSaves(componentId)

SpecDeletes == Init /\ [][NextDeletes]_vars

(***************************************************************************)
(* The claims.                                                             *)
(***************************************************************************)
\* C1: when no index name is configured or the start-up probe fails,
\* initialize returns without an error and leaves the engine in fallback
\* mode; every later upsertComponents and semanticSearch call then makes no
\* call on the Vector Index Service, raises no error of the index path, and
\* on success has been served by the Fallback Store.
C1_ProbeFailureFallsBack ==
  probe \in {"noname", "failed"} =>
    /\ ~isOnline
    /\ last.op = "initialize" => last.err = NoError
    /\ last.op \in {"upsertComponents", "semanticSearch"} =>
         /\ ~last.online
         /\ ~last.idx
         /\ last.err \notin {TypeError, IndexError}
         /\ last.err = NoError => last.fb

\* the probe failed, and a later search was answered from the local document
C1_Witness ==
  /\ probe = "failed"
  /\ last.op = "semanticSearch"
  /\ last.err = NoError
  /\ last.fb /\ ~last.idx
  /\ last.result # <<>>

\* C2: only initialize writes the mode flag; once the probe has succeeded
\* every later call runs on the primary path, also after the service has
\* stopped answering (the call fails there and the flag stays set).
C2_ModeWrittenOnlyByInitialize ==
  /\ [][isOnline' # isOnline => last'.op = "initialize"]_vars
  /\ [](probe = "ok" => /\ isOnline
                        /\ last.op # "initialize" =>
                             last.online /\ ~last.fb)

\* after a successful probe the service stopped answering: the upsert failed
\* on the primary path and the engine is still in primary mode
C2_Witness ==
  /\ probe = "ok"
  /\ last.op = "upsertComponents"
  /\ last.err = IndexError
  /\ last.idx /\ ~last.fb
  /\ isOnline

\* a record's metadata without the two clock readings (createdAt, updatedAt),
\* which are taken from the clock and not derived from the Component
StripClock(metadata) ==
  [k \in DOMAIN metadata \ {"createdAt", "updatedAt"} |-> metadata[k]]

\* the retrievable records of the two stores, clock readings set aside
RetrievableFile(f) ==
  [i \in DOMAIN load(f) |->
     [load(f)[i] EXCEPT !.metadata = StripClock(@)]]
RetrievableIndex(v) ==
  [i \in DOMAIN v |-> [v[i] EXCEPT !.metadata = StripClock(@)]]

\* C3: in each mode, a successful upsertComponents(L) that directly follows
\* a successful upsertComponents(L) leaves both stores with the same ids,
\* the same number of records and the same derived metadata.
C3_IngestTwiceAsOnce ==
  [][(last'.op = "upsertComponents" /\ last'.again) =>
       /\ RetrievableFile(file') = RetrievableFile(file)
       /\ RetrievableIndex(vindex') = RetrievableIndex(vindex)]_vars

\* the same two components were saved twice in a row in fallback mode
C3_Witness ==
  /\ last.op = "upsertComponents"
  /\ last.again
  /\ ~last.online
  /\ last.arg = <<CompB, CompA>>
  /\ Len(load(file)) = 2

\* C4: the active store holds at most one record per id.
C4_OneRecordPerId ==
  ~isOnline =>
    \A i, j \in DOMAIN load(file) :
      load(file)[i].id = load(file)[j].id => i = j

\* in fallback mode one list named id 1 twice, and the document holds both
\* records
C4_Witness ==
  /\ ~isOnline
  /\ last.op = "upsertComponents"
  /\ last.arg = <<CompA, CompA2>>
  /\ Len(load(file)) = 2
  /\ load(file)[1].id = load(file)[2].id

\* C5: a findSimilarComponents call that returns, returns no record with
\* the id it was asked about.
C5_NeverReturnsItself ==
  (last.op = "findSimilarComponents" /\ last.err = NoError) =>
    \A i \in DOMAIN last.result :
      last.result[i].id # last.arg.componentId

\* in primary mode the call returned the record it was asked about
C5_Witness ==
  /\ last.op = "findSimilarComponents"
  /\ last.online
  /\ last.err = NoError
  /\ \E i \in DOMAIN last.result : last.result[i].id = last.arg.componentId

\* the ids the store that served the latest call holds
StoredIds ==
  IF last.online THEN DOMAIN vindex
  ELSE {load(file)[i].id : i \in DOMAIN load(file)}

\* C6: when the store was consulted and does not hold the id,
\* findSimilarComponents raises a not-found error naming the id and returns
\* nothing; and a findSimilarComponents call changes no state.
C6_NotFoundWhenAbsent ==
  /\ []((/\ last.op = "findSimilarComponents"
         /\ last.err \notin {TypeError, IndexError}
         /\ last.arg.componentId \notin StoredIds) =>
          /\ last.err.kind = "NotFound"
          /\ last.err.id = last.arg.componentId
          /\ last.result = <<>>)
  /\ [][last'.op = "findSimilarComponents" =>
          UNCHANGED <<isOnline, index, probe, vindex, file>>]_vars

\* the local document does not exist, and findSimilarComponents said that the
\* id was not found
C6_Witness ==
  /\ last.op = "findSimilarComponents"
  /\ ~last.online
  /\ file.state = "absent"
  /\ last.err.kind = "NotFound"
  /\ last.err.id = last.arg.componentId

\* the ids the index holds for a service, and the ids the latest call
\* returned
ServiceIds(v, serviceName) ==
  {i \in DOMAIN v : v[i].metadata.serviceCandidate = serviceName}
ReturnedIds == {last.result[i].id : i \in DOMAIN last.result}

\* every record the latest getServiceComponents call returned is a stored
\* record of the service asked for
ReturnsOnlyTheService ==
  IF last.online
    THEN \A i \in DOMAIN last.result :
           /\ last.result[i].id \in ServiceIds(vindex, last.arg)
           /\ last.result[i].metadata = vindex[last.result[i].id].metadata
    ELSE \A i \in DOMAIN last.result :
           /\ last.result[i].metadata.serviceCandidate = last.arg
           /\ \E k \in DOMAIN load(file) : load(file)[k] = last.result[i]

\* every stored record of the service asked for was returned
ReturnsAllOfTheService ==
  IF last.online
    THEN ServiceIds(vindex, last.arg) \subseteq ReturnedIds
    ELSE \A k \in DOMAIN load(file) :
           load(file)[k].metadata.serviceCandidate = last.arg =>
             \E i \in DOMAIN last.result : last.result[i] = load(file)[k]

\* C7 as stated: in both modes getServiceComponents(S) returns every stored
\* record whose service is S and no other record.
C7_ExactlyTheService ==
  (last.op = "getServiceComponents" /\ last.err = NoError) =>
    ReturnsOnlyTheService /\ ReturnsAllOfTheService

\* C7, amended: getServiceComponents(S) returns only stored records whose
\* service is S; all of them in fallback mode; in primary mode ServiceTopK of
\* them, each once, when more than ServiceTopK match, and all of them
\* otherwise.
C7_ExactUpToTheCap ==
  (last.op = "getServiceComponents" /\ last.err = NoError) =>
    /\ ReturnsOnlyTheService
    /\ ~last.online => ReturnsAllOfTheService
    /\ last.online =>
         LET matching == Cardinality(ServiceIds(vindex, last.arg))
         IN /\ Cardinality(ReturnedIds) = Len(last.result)
            /\ IF matching > ServiceTopK
                 THEN Len(last.result) = ServiceTopK
                 ELSE ReturnsAllOfTheService

\* the index holds more records of the service than one query returns, and
\* the call returned ServiceTopK of them
C7_Witness ==
  /\ last.op = "getServiceComponents"
  /\ last.err = NoError
  /\ last.online
  /\ Cardinality(ServiceIds(vindex, last.arg)) > ServiceTopK
  /\ Len(last.result) = ServiceTopK

\* the record satisfies every constraint of the filter, read as the Vector
\* Index Service reads it
SatisfiesAll(metadata, filters) ==
  \A c \in filters.constraints : Satisfies(metadata, c, FALSE)

\* the query occurs in the record's name, content snippet or keywords
MatchesQuery(record, query) == searchKeeps(record, query, NoFilter)

\* C8: a fallback semanticSearch with a filter returns only records that
\* satisfy every constraint of the filter, and its filter excludes no stored
\* record that matches the query and satisfies every constraint.
C8_FallbackFilterAsPrimary ==
  (last.op = "semanticSearch" /\ ~last.online) =>
    LET query == last.arg.query
        filters == last.arg.filters
        kept == storageSearch(file, query, filters)
    IN /\ \A i \in DOMAIN last.result :
            SatisfiesAll(last.result[i].metadata, filters)
       /\ \A i \in DOMAIN load(file) :
            (/\ MatchesQuery(load(file)[i], query)
             /\ SatisfiesAll(load(file)[i].metadata, filters)) =>
              \E k \in DOMAIN kept : kept[k] = load(file)[i]

\* in fallback mode the filter {type: {$eq: 'class'}} left nothing, although
\* a stored record of type class matches the query
C8_Witness ==
  /\ last.op = "semanticSearch"
  /\ ~last.online
  /\ last.arg.filters = F_typeEq
  /\ last.result = <<>>
  /\ \E i \in DOMAIN load(file) :
       /\ MatchesQuery(load(file)[i], last.arg.query)
       /\ load(file)[i].metadata.type = S_class

\* the record's name contains the query, case-insensitively
NameHit(record, query) ==
  includes(toLowerCase(record.metadata.name), toLowerCase(query))

\* C9: in the result of a fallback semanticSearch every record whose name
\* contains the query stands before every record whose name does not; and
\* when a stored record that the search keeps has the query in its name, so
\* has the first record returned (topK = 1 returns a name-matching record).
C9_NameMatchFirst ==
  (last.op = "semanticSearch" /\ ~last.online) =>
    LET query == last.arg.query
        result == last.result
    IN /\ \A i, j \in DOMAIN result :
            (NameHit(result[j], query) /\ ~NameHit(result[i], query)) => j < i
       /\ (\E i \in DOMAIN load(file) :
             /\ NameHit(load(file)[i], query)
             /\ searchKeeps(load(file)[i], query, last.arg.filters)) =>
            /\ result # <<>>
            /\ NameHit(result[1], query)

\* stored in the order B, A: B matches "AUTH" in content, keywords and tags,
\* A in its name; with topK = 1 the search returned A
C9_Witness ==
  /\ last.op = "semanticSearch"
  /\ ~last.online
  /\ last.arg.topK = 1
  /\ last.arg.query = Q_AUTH
  /\ Len(load(file)) = 2
  /\ load(file)[1].id = CompB.id
  /\ calculateRelevanceScore(load(file)[1], Q_AUTH) = 10
  /\ Len(last.result) = 1
  /\ last.result[1].id = CompA.id

\* C10: after a successful fallback upsertComponents(S) load() returns
\* exactly the records built from S, in input order, and no record of an id
\* outside S.
C10_SaveReplacesCollection ==
  (/\ last.op = "upsertComponents"
   /\ ~last.online
   /\ last.err = NoError) =>
    /\ \E now \in Times : load(file) = buildRecords(last.arg, now)
    /\ \A i \in DOMAIN load(file) :
         \E k \in DOMAIN last.arg : last.arg[k].id = load(file)[i].id

\* the document held B (from Init or an earlier ingest); one component A was
\* then ingested in fallback mode and is all the document holds
C10_Witness ==
  /\ last.op = "upsertComponents"
  /\ ~last.online
  /\ last.err = NoError
  /\ last.arg = <<CompA>>
  /\ Len(load(file)) = 1
  /\ load(file)[1].id = CompA.id

\* the keyword term of a similarity score, in the units of its numerator:
\* 3 for every keyword the two records share
SharedKeywords(record1, record2) ==
  3 * Cardinality(Range(record1.metadata.searchKeywords)
                    \cap Range(record2.metadata.searchKeywords))

\* C15: for two records with non-empty keyword sets the similarity score
\* lies in [0, 1] in both orders, and what the kind, domain and service
\* terms contribute to score(A, B) - the score less its keyword term - is
\* what they contribute to score(B, A).
C15_SimilarityBoundedAndSymmetric ==
  last.op = "calculateSimilarityScore" =>
    LET record1 == last.arg[1]
        record2 == last.arg[2]
        ab == last.result.forward
        ba == last.result.backward
    IN (/\ Len(record1.metadata.searchKeywords) > 0
        /\ Len(record2.metadata.searchKeywords) > 0) =>
         /\ ab.den > 0 /\ 0 <= ab.num /\ ab.num <= ab.den
         /\ ba.den > 0 /\ 0 <= ba.num /\ ba.num <= ba.den
         /\ ab.den = ba.den
         /\ ab.num - SharedKeywords(record1, record2)
              = ba.num - SharedKeywords(record2, record1)

\* two different records were scored, they share some but not all keywords
\* and differ in kind
C15_Witness ==
  /\ last.op = "calculateSimilarityScore"
  /\ last.arg[1].metadata.type # last.arg[2].metadata.type
  /\ SharedKeywords(last.arg[1], last.arg[2]) > 0
  /\ 0 < last.result.forward.num
  /\ last.result.forward.num < last.result.forward.den

\* C16: the content-quality score (in thousandths) is 1000 halved for
\* content shorter than 10, times 0.8 for content longer than 5000, times
\* 0.7 for complexity above 10, and lies between 100 and 1000.
C16_ContentQualityValue ==
  last.op = "calculateContentQuality" =>
    LET n == Len(last.arg.content)
        c == last.arg.complexity
        expected == CASE n < 10 /\ c > 10 -> 350
                      [] n < 10 /\ c <= 10 -> 500
                      [] n > 5000 /\ c > 10 -> 560
                      [] n > 5000 /\ c <= 10 -> 800
                      [] n >= 10 /\ n <= 5000 /\ c > 10 -> 700
                      [] OTHER -> 1000
    IN /\ last.result = expected
       /\ 100 <= last.result
       /\ last.result <= 1000

\* content of exactly 5000 characters and complexity exactly 10 were scored:
\* neither threshold is passed
C16_Witness ==
  /\ last.op = "calculateContentQuality"
  /\ Len(last.arg.content) = 5000
  /\ last.arg.complexity = 10
  /\ last.result = 1000

\* C17: enriching the same component twice gives two records equal in every
\* field.
C17_EnrichTwiceEqual ==
  [][(/\ last.op = "enrich" /\ last.err = NoError
      /\ last'.op = "enrich" /\ last'.err = NoError
      /\ last'.arg = last.arg)
       => last'.result = last.result]_vars

\* a component was enriched at a later clock reading than the first
C17_Witness ==
  /\ last.op = "enrich"
  /\ last.err = NoError
  /\ last.result.metadata.createdAt > 1

\* C18: enrichment returns a record for every component, malformed ones
\* included, with 'unknown' for a missing domain or service label and the
\* empty list for a missing dependency list.
C18_EnrichNeverRaises ==
  last.op = "enrich" =>
    /\ last.err = NoError
    /\ last.arg.domain = Undefined => last.result.metadata.domain = S_unknown
    /\ last.arg.serviceCandidate = Undefined =>
         last.result.metadata.serviceCandidate = S_unknown
    /\ last.arg.dependencies = Undefined =>
         last.result.metadata.dependencies = <<>>

\* a component without a dependency list, everything else present, was
\* handed to the enricher
C18_Witness ==
  /\ last.op = "enrich"
  /\ last.arg.dependencies = Undefined
  /\ last.arg.content # Undefined
  /\ last.arg.domain # Undefined

\* a record has a keyword and a semantic context
HasKeywordsAndContext(metadata) ==
  /\ Len(metadata.searchKeywords) > 0
  /\ Len(metadata.semanticContext) > 0

\* C19: every record enrichment produces, and every record in the Fallback
\* Store and in the Vector Index Service, has a non-empty keyword set and a
\* non-empty semantic-context string.
C19_KeywordsAndContextNonEmpty ==
  /\ (last.op = "enrich" /\ last.err = NoError) =>
       HasKeywordsAndContext(last.result.metadata)
  /\ \A i \in DOMAIN load(file) : HasKeywordsAndContext(load(file)[i].metadata)
  /\ \A id \in DOMAIN vindex : HasKeywordsAndContext(vindex[id].metadata)

\* a component with an empty name, empty content, no labels and no
\* dependencies was enriched: its kind is its only keyword
C19_Witness ==
  /\ last.op = "enrich"
  /\ last.err = NoError
  /\ last.arg.name = <<>>
  /\ last.arg.content = <<>>
  /\ last.arg.domain = Undefined
  /\ last.arg.dependencies = <<>>
  /\ last.result.metadata.searchKeywords = <<last.arg.type>>

\* one of the five UI pattern rules matches the content
UIRuleMatched(content) ==
  \E k \in DOMAIN UIPatterns : TestAnyI(UIPatterns[k].words, content)

\* C20: the migration complexity bucket is 'complex' for complexity above 8
\* or content matching a UI pattern rule, else 'moderate' for complexity
\* above 5 or more than 7 dependencies, else 'simple'.
C20_MigrationComplexityBucket ==
  (last.op = "enrich" /\ last.err = NoError) =>
    LET c == last.arg
    IN last.result.metadata.migrationComplexity =
         IF c.complexity > 8 \/ UIRuleMatched(c.content) THEN S_complex
         ELSE IF c.complexity > 5 \/ Len(c.dependencies) > 7 THEN S_moderate
         ELSE S_simple

\* a component of complexity 5 with no dependencies and no UI keyword in
\* its content was enriched
C20_Witness ==
  /\ last.op = "enrich"
  /\ last.err = NoError
  /\ last.arg.complexity <= 5
  /\ Len(last.arg.dependencies) <= 7
  /\ ~UIRuleMatched(last.arg.content)
  /\ last.result.metadata.migrationComplexity = S_complex

\* C13: in fallback mode deleteComponent leaves the persisted collection
\* equal to the prior one without the records of that id, the others
\* unchanged and in order, and after clearIndex load() returns the empty
\* collection; neither calls the Vector Index Service.  In primary mode
\* both leave the Fallback Store untouched and do not call it.
C13_DeleteAndClearRouting ==
  [][/\ last'.op = "deleteComponent" =>
          IF isOnline
            THEN file' = file /\ ~last'.fb
            ELSE /\ load(file') = SelectSeq(load(file),
                                            LAMBDA r : r.id # last'.arg)
                 /\ vindex' = vindex
                 /\ ~last'.idx
     /\ last'.op = "clearIndex" =>
          IF isOnline
            THEN file' = file /\ ~last'.fb
            ELSE /\ load(file') = <<>>
                 /\ vindex' = vindex
                 /\ ~last'.idx]_vars

\* a fallback-mode delete has removed the records of its id and kept another
\* record
C13_Witness ==
  /\ last.op = "deleteComponent"
  /\ ~last.online
  /\ last.fb
  /\ Len(load(file)) > 0
  /\ \A i \in DOMAIN load(file) : load(file)[i].id # last.arg

\* C14: an upsertComponents call on which the Embedding Provider fails ends
\* with that error and writes nothing: the Vector Index Service and the
\* Fallback Store are as before the call and neither was called.
C14_EmbeddingFailureWritesNothing ==
  [][(last'.op = "upsertComponents" /\ last'.err = EmbeddingError) =>
       /\ vindex' = vindex
       /\ file' = file
       /\ ~last'.idx
       /\ ~last'.fb]_vars

\* an ingest of two components failed at an embedding while the stores held
\* records of an earlier ingest
C14_Witness ==
  /\ last.op = "upsertComponents"
  /\ last.err = EmbeddingError
  /\ Len(last.arg) = 2
  /\ Len(load(file)) > 0
  /\ DOMAIN vindex # {}

\* the operations that read the Fallback Store through load()
LoadOps ==
  {"semanticSearch", "findSimilarComponents", "getServiceComponents",
   "deleteComponent", "getIndexStats", "getMigrationAnalysis"}

\* C11: a fallback-mode call that loads the persisted document while it
\* exists but cannot be read or parsed ends with an error, and not with the
\* not-found error of an empty store.
C11_DiskErrorSurfaced ==
  [][(/\ file.state = "corrupt"
      /\ file'.state # "writing"
      /\ ~isOnline
      /\ last'.op \in LoadOps)
       => last'.err.kind \notin {"none", "NotFound"}]_vars

\* getIndexStats has read an unreadable document and reported an empty store
C11_Witness ==
  /\ file.state = "corrupt"
  /\ last.op = "getIndexStats"
  /\ ~last.online
  /\ last.fb
  /\ last.err = NoError
  /\ last.result.totalVectorCount = 0

\* what a fallback-mode read returns when load() returns records: its error
\* and its result
ReadOf(op, arg, records) ==
  CASE op = "semanticSearch" ->
         <<NoError, fallbackSearch(save(records), arg.query, arg.topK,
                                   arg.filters)>>
    [] op = "findSimilarComponents" ->
         LET out == fallbackSimilarSearch(save(records), arg.componentId,
                                          arg.topK)
         IN <<out.err, out.result>>
    [] op = "getServiceComponents" ->
         <<NoError, fallbackServiceSearch(save(records), arg)>>
    [] op = "getIndexStats" ->
         <<NoError, [totalVectorCount |-> Len(records)]>>
    [] op = "getMigrationAnalysis" ->
         <<NoError, migrationAnalysis(records)>>

\* C12: a read made while a save of the Fallback Store is in progress
\* returns what it returns on the complete collection before the save or on
\* the complete collection after it.
C12_LoadSeesBeforeOrAfter ==
  [][(/\ file.state = "writing"
      /\ file'.state = "writing"
      /\ last' # last)
       => <<last'.err, last'.result>>
            \in {ReadOf(last'.op, last'.arg, file.before),
                 ReadOf(last'.op, last'.arg, file.records)}]_vars

\* getIndexStats has counted no record while a save replacing a non-empty
\* collection by a non-empty one was in progress
C12_Witness ==
  /\ file.state = "writing"
  /\ file.before # <<>>
  /\ file.records # <<>>
  /\ last.op = "getIndexStats"
  /\ ~last.online
  /\ last.result.totalVectorCount = 0

\* Math.round of a number of eighths
RoundEighths(x8) == (x8 + 4) \div 8

\* C21: the estimated effort is round(complexity * 2 + dependencyCount *
\* 0.5), taken times 1.5 before rounding when a UI pattern rule matches the
\* content.
C21_EffortEstimate ==
  (last.op = "enrich" /\ last.err = NoError) =>
    LET c == last.arg
        base8 == c.complexity * 16 + Len(c.dependencies) * 4
    IN last.result.metadata.estimatedEffort =
         IF UIRuleMatched(c.content) THEN RoundEighths((base8 * 3) \div 2)
         ELSE RoundEighths(base8)

\* a component of complexity 9 with 12 dependencies and no UI keyword in its
\* content was enriched, and its effort is 36 rather than 24
C21_Witness ==
  /\ last.op = "enrich"
  /\ last.err = NoError
  /\ last.arg.complexity = 9
  /\ Len(last.arg.dependencies) = 12
  /\ ~UIRuleMatched(last.arg.content)
  /\ last.result.metadata.estimatedEffort = 36

\* the relevance score as the sum of its four terms
RelevanceSum(record, query) ==
  LET q == toLowerCase(query)
      m == record.metadata
      has(texts) == \E k \in DOMAIN texts : includes(toLowerCase(texts[k]), q)
  IN (IF has(<<m.name>>) THEN 10 ELSE 0)
       + (IF has(<<m.content>>) THEN 5 ELSE 0)
       + (IF has(m.searchKeywords) THEN 3 ELSE 0)
       + (IF has(m.tags) THEN 2 ELSE 0)

\* C22: the relevance score of a stored record is +10 for the name, +5 for
\* the content snippet, +3 for a keyword and +2 for a tag containing the
\* query; a fallback search returns its results in non-increasing order of
\* that score, records of equal score in the order in which they are stored.
C22_RelevanceOrder ==
  /\ \A query \in Queries : \A i \in DOMAIN load(file) :
       calculateRelevanceScore(load(file)[i], query)
         = RelevanceSum(load(file)[i], query)
  /\ (last.op = "semanticSearch" /\ ~last.online /\ last.err = NoError) =>
       LET result == last.result
           query == last.arg.query
           stored == load(file)
       IN \A i, j \in DOMAIN result :
            i < j =>
              /\ RelevanceSum(result[i], query) >= RelevanceSum(result[j], query)
              /\ (/\ RelevanceSum(result[i], query)
                       = RelevanceSum(result[j], query)
                  /\ result[i] # result[j])
                   => \E p, r \in DOMAIN stored :
                        p < r /\ stored[p] = result[i] /\ stored[r] = result[j]

\* a fallback search has returned two different records of the same
\* positive score
C22_Witness ==
  /\ last.op = "semanticSearch"
  /\ ~last.online
  /\ Len(last.result) = 2
  /\ last.result[1] # last.result[2]
  /\ RelevanceSum(last.result[1], last.arg.query) > 0
  /\ RelevanceSum(last.result[1], last.arg.query)
       = RelevanceSum(last.result[2], last.arg.query)

\* C23: a primary-mode ingest of n records that reaches the Vector Index
\* Service issues upsert calls of at most 100 records that carry the
\* records in input order, 100 to every call but the last one issued;
\* a successful ingest issues ceil(n/100) of them, covering all n records,
\* and leaves all of them stored; an ingest that fails at batch k has
\* issued k calls, and the index holds what it held before with the
\* records of the first k-1 batches upserted.
C23_SequentialBatches ==
  [][(last'.op = "upsertComponents" /\ isOnline /\ last'.idx) =>
       LET components == last'.arg
           n == Len(components)
           issued == last'.result
           calls == Len(issued)
           completed == IF last'.err = NoError THEN calls ELSE calls - 1
           sent == {components[i].id : i \in 1..(100 * completed)
                                              \cap DOMAIN components}
       IN /\ last'.err \in {NoError, IndexError}
          /\ calls >= 1
          /\ calls <= (n \div 100) + (IF n % 100 = 0 THEN 0 ELSE 1)
          /\ last'.err = NoError =>
               calls = (n \div 100) + (IF n % 100 = 0 THEN 0 ELSE 1)
          /\ \A b \in 1..calls :
               /\ Len(issued[b]) =
                    IF b * 100 <= n THEN 100 ELSE n - (b - 1) * 100
               /\ \A j \in DOMAIN issued[b] :
                    issued[b][j] = components[(b - 1) * 100 + j].id
          /\ DOMAIN vindex' = DOMAIN vindex \cup sent
          /\ \A id \in DOMAIN vindex \ sent : vindex'[id] = vindex[id]]_vars

\* an ingest of 201 records failed at its second batch of three: two calls
\* were issued, the first 100 records are stored, the others are not
C23_Witness ==
  /\ last.op = "upsertComponents"
  /\ last.online
  /\ last.err = IndexError
  /\ Len(last.arg) = 201
  /\ Len(last.result) = 2
  /\ Len(last.result[2]) = 100
  /\ DOMAIN vindex = 1..100

ReadOps ==
  {"semanticSearch", "findSimilarComponents", "getServiceComponents",
   "getIndexStats", "getUIAnalysis", "getMigrationAnalysis"}

\* C24: semanticSearch, findSimilarComponents, getServiceComponents,
\* getIndexStats, getUIAnalysis and getMigrationAnalysis are read-only: in
\* either mode, whether the call succeeds or fails, the persisted document,
\* the contents of the Vector Index Service and the mode flag are after the
\* call what they were before it.
C24_ReadsLeaveStateAlone ==
  [][last'.op \in ReadOps =>
       /\ file' = file
       /\ vindex' = vindex
       /\ isOnline' = isOnline]_vars

\* a statistics query in primary mode was rejected by the Vector Index
\* Service while both stores held records
C24_Witness ==
  /\ last.op = "getIndexStats"
  /\ last.online
  /\ last.err = IndexError
  /\ isOnline
  /\ DOMAIN vindex # {}
  /\ file.state = "ok"
  /\ file.records # <<>>

CarriesUIPattern(record) == Truthy(record.metadata.uiPattern)

\* C25: in fallback mode the UI-pattern census is built from the full
\* record set: its total is the number of records of the persisted document
\* that carry a UI pattern, and its counts by pattern, by framework and by
\* UI property flag are the counts over those records.
C25_FallbackUICensus ==
  (last.op = "getUIAnalysis" /\ ~last.online /\ last.err = NoError) =>
    LET carrying == SelectSeq(load(file), CarriesUIPattern)
    IN /\ last.result.totalUIComponents = Len(carrying)
       /\ last.result = uiAnalysis(carrying)

\* a fallback-mode census over a document whose records all carry a UI
\* pattern reported no UI component at all
C25_Witness ==
  /\ last.op = "getUIAnalysis"
  /\ ~last.online
  /\ last.err = NoError
  /\ load(file) # <<>>
  /\ \A i \in DOMAIN load(file) : CarriesUIPattern(load(file)[i])
  /\ last.result.totalUIComponents = 0

\* C26: findSimilarComponents(componentId, topK) returns at most topK
\* records, in primary mode as in fallback mode.
C26_AtMostTopKSimilar ==
  (last.op = "findSimilarComponents" /\ last.err = NoError) =>
    Len(last.result) <= last.arg.topK

\* a primary-mode call with topK = 1 handed back two records
C26_Witness ==
  /\ last.op = "findSimilarComponents"
  /\ last.online
  /\ last.idx
  /\ last.err = NoError
  /\ last.arg.topK = 1
  /\ Len(last.result) = 2

\* C27: with no filter and topK at least the number of stored records,
\* fallback search returns exactly the stored records whose relevance score
\* for the query is greater than 0 (a match in the name, the content
\* snippet, the keywords or the tags), and no record of score 0.
C27_FallbackSearchReturnsTheScored ==
  (/\ last.op = "semanticSearch"
   /\ ~last.online
   /\ last.err = NoError
   /\ ~last.arg.filters.given
   /\ file.state = "ok"
   /\ last.arg.topK >= Len(file.records)) =>
    LET scored == SelectSeq(file.records,
                            LAMBDA r : RelevanceSum(r, last.arg.query) > 0)
    IN /\ Len(last.result) = Len(scored)
       /\ Range(last.result) = Range(scored)

\* a fallback search for the tag text 'ui-component' returned nothing
\* although the stored record scores 2 for it
C27_Witness ==
  /\ last.op = "semanticSearch"
  /\ ~last.online
  /\ last.err = NoError
  /\ ~last.arg.filters.given
  /\ last.arg.query = S_uiComponent
  /\ file.state = "ok"
  /\ Len(file.records) = 1
  /\ RelevanceSum(file.records[1], S_uiComponent) = 2
  /\ last.result = <<>>

\* C28: in fallback mode two deleteComponent calls for different ids whose
\* load and save steps interleave both take effect: once both have
\* completed, the persisted collection holds neither id and still holds
\* every other record it held when the first of them was issued.
C28_ConcurrentDeletesBothTakeEffect ==
  (/\ last.op = "deleteComponent:save"
   /\ last.result.pending = {}
   /\ Cardinality(last.result.completed) = 2) =>
    LET stored == load(file)
        before == last.result.before
    IN /\ \A i \in DOMAIN stored : stored[i].id \notin last.result.completed
       /\ \A i \in DOMAIN before :
            before[i].id \notin last.result.completed =>
              before[i] \in Range(stored)

\* two interleaved deletes of ids 1 and 2 have both completed, and the
\* document, which held both records, holds one of them again
C28_Witness ==
  /\ last.op = "deleteComponent:save"
  /\ last.result.pending = {}
  /\ last.result.completed = {1, 2}
  /\ {last.result.before[i].id : i \in DOMAIN last.result.before} = {1, 2}
  /\ \E i \in DOMAIN load(file) : load(file)[i].id \in {1, 2}

\* the records the document holds, readable at the moment or not
StoredBefore(f) ==
  IF f.state \in {"ok", "unreadable"} THEN f.records ELSE <<>>

\* C29: in fallback mode deleteComponent(componentId) never removes a
\* record of another id: whatever the state of the persisted document at
\* the moment of the call, one that cannot be read included, the records of
\* other ids that it held before the call are still persisted after it.
C29_DeleteKeepsOtherIds ==
  [][(last'.op = "deleteComponent" /\ ~isOnline /\ last'.fb) =>
       \A i \in DOMAIN StoredBefore(file) :
         StoredBefore(file)[i].id # last'.arg =>
           \E j \in DOMAIN StoredBefore(file') :
             StoredBefore(file')[j] = StoredBefore(file)[i]]_vars

\* deleteComponent(1) has run in fallback mode and left an empty document,
\* the state a call on the unreadable document holding id 2 ends in
C29_Witness ==
  /\ last.op = "deleteComponent"
  /\ ~last.online
  /\ last.fb
  /\ last.err = NoError
  /\ last.arg = 1
  /\ file = save(<<>>)

\* C30: the engine is in primary mode only if a start-up probe of the
\* Vector Index Service has succeeded: in every reachable state, the one
\* after construction and before initialize() included, an
\* upsertComponents, semanticSearch, findSimilarComponents,
\* getServiceComponents, deleteComponent or clearIndex call takes the
\* primary branch only when an index handle exists and its probe returned
\* successfully.
C30_PrimaryOnlyAfterProbe ==
  /\ isOnline => (index # "undefined" /\ probe = "ok")
  /\ (/\ last.op \in {"upsertComponents", "semanticSearch",
                      "findSimilarComponents", "getServiceComponents",
                      "deleteComponent", "clearIndex"}
      /\ last.online) => (index # "undefined" /\ probe = "ok")

\* a search made before initialize() took the primary branch and failed on
\* the missing index handle
C30_Witness ==
  /\ last.op = "semanticSearch"
  /\ last.online
  /\ probe = "none"
  /\ index = "undefined"
  /\ last.err = TypeError

====
